---- MODULE Spec2Model ----
(***************************************************************************)
(* Publish pipeline of anibot: OrderedUploadQueue (per-key FIFO + worker), *)
(* AnimeRepository.mark_media, and the UploadWorker poll loop.             *)
(*                                                                         *)
(* Scheduling model: asyncio coroutines.  A coroutine runs atomically from *)
(* one suspension point (await of I/O, queue.get, gather) to the next; the *)
(* pc of a worker names the await it is suspended on.                      *)
(***************************************************************************)
EXTENDS Integers, Sequences, FiniteSets, TLC

\* ---------------------------------------------------------------- bounds
MaxTasks == 2        \* EpisodeUploadTask objects created in one run
MaxNumber == 2       \* episodes 1..MaxNumber of the series in the database
TokenScale == 2      \* token units per token: _tokens is a multiple of 1/TokenScale
MaxRate == 4         \* largest rate, in token units per second
MaxCapacity == 2     \* largest explicit capacity argument, in tokens
MaxTime == 3         \* seconds of loop.time() over which completions are logged
NCallers == 2        \* coroutines calling RateLimiter.acquire concurrently
FeedPages == 3       \* pages of the catalog feed
PageSize == 2        \* items on every page of the feed
MaxBatch == 2        \* raw items handed to one call of ingest_items
MaxIngests == 2      \* calls of ingest_items in one run
MaxFetched == 3      \* items one fetch_delta returns; batches of one direct call
MaxTicks == 2        \* sync ticks, and direct calls of run_with_limited_concurrency
MaxAdds == 3         \* items passed to AsyncBatcher.add

\* ---------------------------------------------------------------- values
\* Optional values: None is the empty tuple, a present value v is <<v>>
None == <<>>
Some(v) == <<v>>
AnimeIds == {"A", "B"}
TranslationIds == {1}
Keys == AnimeIds \X TranslationIds
\* database content: "A" is a series with MaxNumber episodes, "B" a film
EpisodesTotal(a) == IF a = "A" THEN MaxNumber ELSE 1

\* UploadStatus
PENDING == "pending"
UPLOADING == "uploading"
COMPLETED == "completed"
FAILED == "failed"

\* Episode identity "{anime_id}:{translation_id}:{number}"
EpisodeId(a, t, n) == <<a, t, n>>

\* episode rows in the database (written by ingest; static here)
Episodes ==
    UNION {{EpisodeId(k[1], k[2], n) : n \in 1..EpisodesTotal(k[1])} : k \in Keys}

\* deterministic temp path "{temp_dir}/{source_id}-{translation_id}-{number}.mp4"
FilePath(a, t, n) == <<"tmp", a, t, n>>

\* what a download hands to the task: checksum and size_bytes; successive
\* downloads alternate between the two results
DownloadResults ==
    << [checksum |-> Some("c1"), size_bytes |-> None],
       [checksum |-> Some("c2"), size_bytes |-> Some(5)] >>

DownloadResult(nth) == DownloadResults[((nth - 1) % Len(DownloadResults)) + 1]

\* settings.upload_chat_id: a channel; "me" is the fallback pseudo-chat
UploadChatId == "chan"

\* OrderedUploadQueue(client) is always built with the default
delete_after_upload == TRUE

\* module-level names of app/db/repo.py (what `from app.db import repo` exposes)
RepoModuleAttrs ==
    {"datetime", "timezone", "Any", "Sequence", "logger", "delete", "func",
     "select", "insert", "AsyncSession", "selectinload", "models",
     "utc_now", "AnimeRepository"}

\* ---------------------------------------------------------------- state
VARIABLES
    tasks,            \* all EpisodeUploadTask objects, in enqueue order
    queues,           \* self._queues : key -> queue id
    workers,          \* self._workers : key -> worker id
    qitems,           \* contents of every asyncio.Queue created, by queue id
    wk,               \* every worker coroutine created, by worker id
    shutdown_event,   \* self._shutdown_event.is_set()
    active_uploads,   \* self._active_uploads : episode_id -> task
    chat_id,          \* self._chat_id
    chat_validated,   \* self._chat_validated
    get_chat_calls,   \* chat backend: number of get_chat requests received
    files,            \* local paths that exist
    media,            \* table episode_media (set of rows)
    chat_log,         \* chat backend: messages created by send_video
    send_calls,       \* chat backend: send_video invocations per task
    sh,               \* the shutdown() coroutine: pc and gathered workers
    last_poll_at,     \* UploadWorker._stats.last_poll_at (None until a tick)
    stats             \* UploadWorker._stats processed_count / failed_count

\* RateLimiter (token bucket) and the coroutines calling acquire()
VARIABLES
    rate,             \* self._rate, in token units per second
    capacity,         \* self._capacity, in whole tokens
    tokens,           \* self._tokens, in token units
    elapsed,          \* loop.time() - self._last_refill, in seconds
    lock_holder,      \* self._lock: the coroutine inside `async with`
    lock_waiters,     \* self._lock._waiters, FIFO
    acq,              \* every caller of acquire(): pc, time slept, wait
    now,              \* loop.time() since construction, up to MaxTime
    acquired          \* loop.time() of every acquire() completed so far

limiterVars == <<rate, capacity, tokens, elapsed, lock_holder, lock_waiters,
                 acq, now, acquired>>

\* KodikClient and the coroutine that calls it
VARIABLES
    kodik_token,      \* bool(self._token): direct API, else parser library
    kc,               \* the call in progress: frames of fetch_full_list,
                      \* _with_retry, _fetch_page_direct_api and its pc
    http_log,         \* catalog: every request issued, with its response
    acquires,         \* completed self._rate_limiter.acquire() of the client
    sleeps,           \* asyncio.sleep delays of the page fetch in progress
    result            \* what the call returned or raised

clientVars == <<kodik_token, kc, http_log, acquires, sleeps, result>>
kodikVars == <<limiterVars, clientVars>>

\* IngestService, AnimeRepository and the database session
VARIABLES
    db,               \* committed rows of anime, translation,
                      \* anime_translation and episode
    sess,             \* the session of the call: transaction status and the
                      \* rows the transaction sees
    ig,               \* ingest_items in progress: pc, bundles, position
    ingest_stats,     \* IngestStats of the call in progress or last ended
    ingest_calls      \* calls of ingest_items so far; utc_now() of a call

ingestVars == <<db, sess, ig, ingest_stats, ingest_calls>>

\* DeltaSyncWorker and run_with_limited_concurrency
VARIABLES
    dw,               \* the worker: position of _run_loop / sync, its
                      \* constructor arguments, the items of the tick
    sync_shutdown,    \* DeltaSyncWorker._shutdown_event
    sync_stats,       \* DeltaSyncWorker._stats
    run,              \* the call of run_with_limited_concurrency in progress
                      \* or last ended: its arguments, tasks and semaphore
    run_calls         \* calls of run_with_limited_concurrency so far

syncVars == <<dw, sync_shutdown, sync_stats, run, run_calls>>

\* Downloader.download and retry_async around it
VARIABLES
    dl,               \* Downloader.download in progress: the await it is
                      \* suspended on, what it saw of the file, its outcome
    proc,             \* the muxer subprocess of the download
    out_file,         \* the file at out_path: None or its size in bytes
    rt                \* the call of retry_async: attempt, current_delay,
                      \* what each attempt ended with

downloadVars == <<dl, proc, out_file, rt>>

\* the module-level singletons of telegram_uploader
VARIABLES
    _client,          \* the global _client: None or the id of a client
    _queue,           \* the global _queue: None or the id of a queue
    clients,          \* the clients built so far: started or not
    upload_queues,    \* the OrderedUploadQueue objects built so far, each
                      \* with the client it was given
    sg                \* the callers of get_upload_client / get_upload_queue

singletonVars == <<_client, _queue, clients, upload_queues, sg>>

\* an AsyncBatcher and the coroutines that use it
VARIABLES
    ab                \* the batcher: _items, _timer_task, _lock, the callers
                      \* of add / flush / close, the timer tasks created,
                      \* and what the processor was handed and completed

batcherVars == <<ab>>

\* the transactions of ingest batches that run at the same time
VARIABLES
    txn               \* per transaction: its batch, the rows its statements
                      \* lock in order, its position, the rows it holds

lockVars == <<txn>>

\* everything added to the publish pipeline and the catalog client
serviceVars == <<ingestVars, syncVars, downloadVars, singletonVars,
                 batcherVars, lockVars>>
uploadVars == <<tasks, queues, workers, qitems, wk, shutdown_event,
                active_uploads, chat_id, chat_validated, get_chat_calls,
                files, media, chat_log, send_calls, sh, last_poll_at, stats>>

vars == <<tasks, queues, workers, qitems, wk, shutdown_event, active_uploads,
          chat_id, chat_validated, get_chat_calls, files, media, chat_log,
          send_calls, sh, last_poll_at, stats, kodikVars, serviceVars>>

queueVars == <<queues, workers, qitems>>
chatVars == <<chat_id, chat_validated, get_chat_calls>>
pollVars == <<last_poll_at, stats>>

\* file system: paths of TEMP_DIR for which os.remove raises OSError (the
\* film's file cannot be unlinked: permission denied; the series' files can)
ReadOnlyFiles == {FilePath("B", 1, 1)}

\* outcome of os.remove in _cleanup_file: TRUE removed, FALSE OSError
RemoveOutcomes(path) == {path \notin ReadOnlyFiles}

\* ---------------------------------------------------------------- helpers
Range(s) == {s[i] : i \in DOMAIN s}

\* truth value of an optional integer: None and 0 are falsy
Truthy(v) == v # None /\ v # Some(0)

\* Python `a or b`
PyOr(a, b) == IF Truthy(a) THEN a ELSE b

\* exceptions carry their text; str(exc) returns it
FileNotFoundError(path) ==
    [type |-> "FileNotFoundError", text |-> "File not found: <file_path>"]
SendError == [type |-> "RPCError", text |-> "send_video failed"]
DbError == [type |-> "DBAPIError", text |-> "mark_media failed"]
Str(exc) == exc.text

\* EpisodeUploadTask(...) as built by UploadWorker._process_episode
NewTask(a, t, n, res) ==
    [episode_id |-> EpisodeId(a, t, n),
     anime_id |-> a,
     translation_id |-> t,
     number |-> n,
     file_path |-> FilePath(a, t, n),
     quality |-> None,
     checksum |-> res.checksum,
     size_bytes |-> res.size_bytes,
     status |-> PENDING,
     error |-> None,
     telegram_message_id |-> None]

queue_key(task) == <<task.anime_id, task.translation_id>>

\* the message send_video returns: id assigned by the chat, the chat it was
\* sent to, and the stored video (file_unique_id is unique per upload)
Message(id, chat) ==
    [id |-> id, chat |-> [id |-> chat],
     video |-> [file_unique_id |-> Some(id), file_size |-> Some(7)]]

\* worker-local `msg` before send_video has returned: only the target chat
NoMessage(chat) ==
    [id |-> 0, chat |-> [id |-> chat],
     video |-> [file_unique_id |-> None, file_size |-> None]]

\* a freshly created worker coroutine (asyncio.create_task, not yet run)
NewWorker(key) ==
    [key |-> key, pc |-> "created", queue |-> 0, cur |-> 0,
     msg |-> NoMessage("me"),
     deq_after_shutdown |-> FALSE, cancel |-> FALSE]

\* mutant: the membership test always fails, every enqueue spawns a worker
HasQueue_never(key, qs) == FALSE

\* `key not in self._queues`
HasQueue(key, qs) == key \in DOMAIN qs

\* mutant: the newest item is taken first (LIFO)
QueueGet_lifo(q) == [item |-> q[Len(q)], rest |-> SubSeq(q, 1, Len(q) - 1)]

\* asyncio.Queue.get on a non-empty FIFO: the oldest item leaves the queue
QueueGet(q) == [item |-> Head(q), rest |-> Tail(q)]

\* task.status = UploadStatus.UPLOADING
TaskUploading(task) == [task EXCEPT !.status = UPLOADING]

\* mutant: the message id is stored but the status is not advanced
TaskCompleted_idOnly(task, msg) ==
    [task EXCEPT !.telegram_message_id = Some(msg.id)]

\* task.status = COMPLETED; task.telegram_message_id = msg.id
TaskCompleted(task, msg) ==
    [task EXCEPT !.status = COMPLETED, !.telegram_message_id = Some(msg.id)]

\* mutant: the status is set but the error text is dropped
TaskFailed_noError(task, exc) == [task EXCEPT !.status = FAILED]

\* except Exception as exc: task.status = FAILED; task.error = str(exc)
TaskFailed(task, exc) ==
    [task EXCEPT !.status = FAILED, !.error = Some(Str(exc))]

\* mutant: plain INSERT without the ON CONFLICT clause
mark_media_insert(rows, episode_id, chat, message_id, file_unique_id, quality, source_url, checksum, size_bytes) ==
    rows \cup {[episode_id |-> episode_id,
                telegram_chat_id |-> chat,
                telegram_message_id |-> message_id,
                file_unique_id |-> file_unique_id,
                quality |-> quality,
                source_url |-> source_url,
                checksum |-> checksum,
                size_bytes |-> size_bytes]}

\* INSERT ... ON CONFLICT (episode_id) DO UPDATE SET <all media fields>
mark_media(rows, episode_id, chat, message_id, file_unique_id, quality, source_url, checksum, size_bytes) ==
    LET row == [episode_id |-> episode_id,
                telegram_chat_id |-> chat,
                telegram_message_id |-> message_id,
                file_unique_id |-> file_unique_id,
                quality |-> quality,
                source_url |-> source_url,
                checksum |-> checksum,
                size_bytes |-> size_bytes]
    IN  {r \in rows : r.episode_id # episode_id} \cup {row}

\* mutant: the row gets the queue's current chat id, not the message's
MarkTask_currentChat(rows, task, msg) ==
    mark_media(rows, task.episode_id, chat_id, msg.id,
               msg.video.file_unique_id, task.quality, None, task.checksum,
               PyOr(task.size_bytes, msg.video.file_size))

\* the arguments _process_task passes to mark_media for task and msg
MarkTask(rows, task, msg) ==
    mark_media(rows, task.episode_id, msg.chat.id, msg.id,
               msg.video.file_unique_id, task.quality, None, task.checksum,
               PyOr(task.size_bytes, msg.video.file_size))

\* _cleanup_file: remove the path if it exists; OSError is swallowed
CleanupFile(fs, path, rm_ok) ==
    IF path \in fs /\ rm_ok THEN fs \ {path} ELSE fs

\* mutant: the finally block does not clean up
FinallyFiles_skip(fs, path, rm_ok) == fs

\* finally: if self._delete_after_upload: await self._cleanup_file(path)
FinallyFiles(fs, path, rm_ok) ==
    IF delete_after_upload THEN CleanupFile(fs, path, rm_ok) ELSE fs

\* ---------------------------------------------------------------- RateLimiter
Min(a, b) == IF a <= b THEN a ELSE b

\* settings.kodik_rps_limit (default), requests per second
kodik_rps_limit == 90

Callers == 1..NCallers

\* rates r > 0 in token units per second: r = u / TokenScale tokens/s
Rates == 1..MaxRate

\* the `capacity` argument of RateLimiter(rate, capacity=None)
CapacityArgs == {None} \cup {Some(c) : c \in 0..MaxCapacity}

\* int(rate) for a positive float rate
IntRate(r) == r \div TokenScale

\* self._capacity = capacity or int(rate): None and 0 are falsy
Capacity(r, c) == IF c = None \/ c[1] = 0 THEN IntRate(r) ELSE c[1]

\* the largest interval that still changes a refill or a sleep
SatTime == (MaxCapacity + 1) * TokenScale

\* mutant: _refill without the min(capacity, ...) cap
Refill_uncapped(tok, el) == tok + el * rate

\* _refill: min(self._capacity, self._tokens + elapsed * self._rate)
Refill(tok, el) == Min(capacity * TokenScale, tok + el * rate)

\* a caller of acquire(): not in the call, queued on the lock, or asleep
\* inside the lock; `wait` is wait_time * rate, `slept` the time asleep
IdleCaller == [pc |-> "idle", wait |-> 0, slept |-> 0]

\* RateLimiter.__init__(rate = r, capacity = c)
LimiterInit(r, c) ==
    /\ rate = r
    /\ capacity = Capacity(r, c)
    /\ tokens = Capacity(r, c) * TokenScale
    /\ elapsed = 0
    /\ lock_holder = None
    /\ lock_waiters = <<>>
    /\ acq = [i \in Callers |-> IdleCaller]
    /\ now = 0
    /\ acquired = <<>>

\* ---------------------------------------------------------------- KodikClient
\* retry configuration of KodikClient
MAX_RETRIES == 3
RETRY_DELAY_BASE == 1

\* the call frame of a client coroutine that is in no call
NoCall == [pc |-> "idle", op |-> "none", max_pages |-> None,
           updated_since |-> <<>>, results |-> <<>>, next_page |-> None,
           page_count |-> 0, attempt |-> 0, api_attempt |-> 0]

NoResult == [kind |-> "none", exc |-> "", value |-> <<>>]
Returned(v) == [kind |-> "return", exc |-> "", value |-> v]
Raises(e) == [kind |-> "raise", exc |-> e, value |-> <<>>]

\* KodikClient.__init__(token): has_token is bool(self._token)
ClientInit(has_token) ==
    /\ kodik_token = has_token
    /\ kc = NoCall
    /\ http_log = <<>>
    /\ acquires = 0
    /\ sleeps = <<>>
    /\ result = NoResult

\* ---------------------------------------------------------------- ingest
\* revisions of a catalog item: the mutable columns (title, year, ...) of
\* revision 2 differ from those of revision 1
Revs == {1, 2}

\* raw items of the catalog.  A dict carries id, translation (missing:
\* None), the revision of its texts and additional_data.episodes_count; a
\* Response.Element carries raw_data.seasons, here the episode keys of
\* every season in the order of the map (season i has key "i"); anything
\* else is not a supported item.
RawDict(a, t, rev, total) ==
    [type |-> "dict", id |-> a, translation |-> t, rev |-> rev,
     total |-> total, seasons |-> <<>>]
RawElement(a, t, rev, seasons) ==
    [type |-> "element", id |-> a, translation |-> t, rev |-> rev,
     total |-> 0, seasons |-> seasons]
Unsupported ==
    [type |-> "str", id |-> "", translation |-> None, rev |-> 1,
     total |-> 0, seasons |-> <<>>]

RawItems ==
    {RawDict("A", Some(1), rev, MaxNumber) : rev \in Revs}
       \cup {RawDict("B", Some(1), 1, 1),
             RawDict("B", None, 1, 0),
             RawDict("B", None, 1, 1),
             [RawDict("B", Some(1), 1, 1) EXCEPT !.seasons = <<<<"1", "2">>>>],
             RawElement("A", Some(1), 1, <<<<"1">>, <<"1", "x">>>>),
             Unsupported}

\* _safe_int(translation_info.get("id"), 0)
SafeTranslationId(translation) ==
    IF translation = None THEN 0 ELSE translation[1]

\* NormalizedEpisode(id=f"{anime_id}:{translation_id}:{ep_num}", ...)
NormalizedEpisode(a, t, n, season) ==
    [id |-> <<a, t, n>>, anime_id |-> a, translation_id |-> t, number |-> n,
     season |-> season]

\* _generate_episodes_from_count
GenerateEpisodesFromCount(a, t, total) ==
    [n \in 1..total |-> NormalizedEpisode(a, t, n, 1)]

\* int(value) of the episode keys that occur: "x" raises ValueError
IntOf == ("1" :> 1) @@ ("01" :> 1) @@ ("2" :> 2)

\* _safe_int(value): None when int(value) raises
SafeInt(value) ==
    IF value \in DOMAIN IntOf THEN Some(IntOf[value]) ELSE None

\* _extract_episodes, the inner loop: `if ep_num is None: continue`, else
\* one episode is appended for the key
RECURSIVE SeasonEpisodes(_, _, _, _)
SeasonEpisodes(a, t, keys, season_num) ==
    IF keys = <<>> THEN <<>>
    ELSE LET ep_num == SafeInt(Head(keys))
             rest == SeasonEpisodes(a, t, Tail(keys), season_num)
         IN  IF ep_num = None THEN rest
             ELSE <<NormalizedEpisode(a, t, ep_num[1], season_num)>> \o rest

\* _extract_episodes, the outer loop: the episodes of every season, in order
RECURSIVE ExtractEpisodes(_, _, _)
ExtractEpisodes(a, t, seasons) ==
    IF seasons = <<>> THEN <<>>
    ELSE ExtractEpisodes(a, t, SubSeq(seasons, 1, Len(seasons) - 1))
            \o SeasonEpisodes(a, t, seasons[Len(seasons)], Len(seasons))

\* normalize_kodik_item for a dict or a Response.Element: _normalize_dict
\* calls _generate_episodes_from_count and never looks at seasons;
\* _normalize_element calls _extract_episodes, which falls back to the
\* count when the seasons gave no episode (`if not episodes`)
NormalizedAnimeBundle(raw) ==
    LET t == SafeTranslationId(raw.translation)
        extracted == ExtractEpisodes(raw.id, t, raw.seasons)
    IN
    [anime |-> [id |-> raw.id, rev |-> raw.rev],
     translation |-> [id |-> t, rev |-> raw.rev],
     anime_translation |-> [anime_id |-> raw.id, translation_id |-> t,
                            episodes_available |-> raw.total],
     episodes |-> IF raw.type = "dict" \/ extracted = <<>>
                  THEN GenerateEpisodesFromCount(raw.id, t, raw.total)
                  ELSE extracted]

\* normalize raises TypeError for any other type
Normalizable(raw) == raw.type \in {"dict", "element"}

\* the bundles of the raw items that normalize, in order
Bundles(raw_items) ==
    LET ok == SelectSeq(raw_items, Normalizable)
    IN  [i \in 1..Len(ok) |-> NormalizedAnimeBundle(ok[i])]

\* ---- tables and INSERT ... ON CONFLICT DO UPDATE
NoRows == [anime |-> {}, translation |-> {}, anime_translation |-> {},
           episode |-> {}]

\* conflict targets (index_elements) of the four upserts
AnimeKey(r) == r.id
TranslationKey(r) == r.id
LinkKey(r) == <<r.anime_id, r.translation_id>>
EpisodeKey(r) == <<r.anime_id, r.translation_id, r.number>>

\* the row a statement leaves for a proposed row: the inserted row when no
\* row has its key, else the existing row with the columns of set_ replaced
AnimeRow(table, data, at) ==
    IF \E r \in table : AnimeKey(r) = data.id
    THEN LET old == CHOOSE r \in table : AnimeKey(r) = data.id
         IN  [old EXCEPT !.rev = data.rev, !.updated_at = at]
    ELSE [id |-> data.id, rev |-> data.rev, created_at |-> at,
          updated_at |-> at]

TranslationRow(table, data) == [id |-> data.id, rev |-> data.rev]

LinkRow(table, data, at) ==
    [anime_id |-> data.anime_id, translation_id |-> data.translation_id,
     episodes_available |-> data.episodes_available, updated_at |-> at]

EpisodeRow(table, data, at) ==
    IF \E r \in table : EpisodeKey(r) = EpisodeKey(data)
    THEN LET old == CHOOSE r \in table : EpisodeKey(r) = EpisodeKey(data)
         IN  [old EXCEPT !.season = data.season, !.updated_at = at]
    ELSE [id |-> data.id, anime_id |-> data.anime_id,
          translation_id |-> data.translation_id, number |-> data.number,
          season |-> data.season, updated_at |-> at]

\* the conflict key of a row of the named table
KeyOf(name, r) ==
    CASE name = "anime" -> AnimeKey(r)
      [] name = "translation" -> TranslationKey(r)
      [] name = "anime_translation" -> LinkKey(r)
      [] name = "episode" -> EpisodeKey(r)

\* the named table after the statement wrote `row`
Upsert(name, table, row) ==
    {r \in table : KeyOf(name, r) # KeyOf(name, row)} \cup {row}

\* outcome of a statement: the rows the transaction sees afterwards, or the
\* error the database raised
Done(rows) == [error |-> "", rows |-> rows]
DbFails(error, rows) == [error |-> error, rows |-> rows]

\* a statement sent inside a transaction that already had an error
InFailedTransaction(s) == s.status = "aborted"

\* AnimeRepository.upsert_translation: `if not data or not data.get("id"):
\* return`, and 0 is falsy
upsert_translation(s, data) ==
    IF data.id = 0 THEN Done(s.rows)
    ELSE IF InFailedTransaction(s)
    THEN DbFails("InFailedSQLTransaction", s.rows)
    ELSE Done([s.rows EXCEPT !.translation =
                  Upsert("translation", @, TranslationRow(@, data))])

\* AnimeRepository.upsert_anime ("" is falsy)
upsert_anime(s, data, at) ==
    IF data.id = "" THEN Done(s.rows)
    ELSE IF InFailedTransaction(s)
    THEN DbFails("InFailedSQLTransaction", s.rows)
    ELSE Done([s.rows EXCEPT !.anime =
                  Upsert("anime", @, AnimeRow(@, data, at))])

\* a row that names an anime or a translation that has no row
BrokenReference(rows, data) ==
    \/ \A r \in rows.anime : r.id # data.anime_id
    \/ \A r \in rows.translation : r.id # data.translation_id

\* AnimeRepository.upsert_anime_translation; both columns are foreign keys
upsert_anime_translation(s, data, at) ==
    IF data.anime_id = "" \/ data.translation_id = 0 THEN Done(s.rows)
    ELSE IF InFailedTransaction(s)
    THEN DbFails("InFailedSQLTransaction", s.rows)
    ELSE IF BrokenReference(s.rows, data)
    THEN DbFails("ForeignKeyViolation", s.rows)
    ELSE Done([s.rows EXCEPT !.anime_translation =
                  Upsert("anime_translation", @, LinkRow(@, data, at))])

\* the statement of upsert_episodes over the VALUES list `valid`, row by
\* row in order: a second proposed row with the key of an earlier one is
\* rejected ("ON CONFLICT DO UPDATE command cannot affect row a second
\* time"), as is a row whose anime or translation does not exist; a
\* rejected statement writes nothing
RECURSIVE UpsertEpisodeRows(_, _, _)
UpsertEpisodeRows(rows, valid, at) ==
    IF valid = <<>> THEN Done(rows)
    ELSE LET before == UpsertEpisodeRows(rows, SubSeq(valid, 1, Len(valid) - 1), at)
             data == valid[Len(valid)]
         IN  IF before.error # "" THEN DbFails(before.error, rows)
             ELSE IF \E k \in 1..(Len(valid) - 1) :
                        EpisodeKey(valid[k]) = EpisodeKey(data)
             THEN DbFails("CardinalityViolation", rows)
             ELSE IF BrokenReference(rows, data)
             THEN DbFails("ForeignKeyViolation", rows)
             ELSE Done([before.rows EXCEPT !.episode =
                           Upsert("episode", @, EpisodeRow(@, data, at))])

\* AnimeRepository.upsert_episodes (an episode id is never empty)
upsert_episodes(s, episodes, at) ==
    IF episodes = <<>> THEN Done(s.rows)
    ELSE IF InFailedTransaction(s)
    THEN DbFails("InFailedSQLTransaction", s.rows)
    ELSE UpsertEpisodeRows(s.rows, episodes, at)

\* IngestStats()
NoStats == [total_processed |-> 0, successful |-> 0, failed |-> 0,
            errors |-> <<>>]

\* no call of ingest_items in progress
NoIngest == [pc |-> "idle", raw_items |-> <<>>, bundles |-> <<>>, i |-> 0,
             persisted |-> <<>>, returned |-> FALSE, before |-> NoRows]

NoSession == [status |-> "none", rows |-> NoRows]

\* an empty database and an IngestService that was not called yet
IngestIdle ==
    /\ db = NoRows
    /\ sess = NoSession
    /\ ig = NoIngest
    /\ ingest_stats = NoStats
    /\ ingest_calls = 0

\* SyncStats()
NoSyncStats == [total_fetched |-> 0, total_imported |-> 0, failed_batches |-> 0]

\* no call of run_with_limited_concurrency was made yet
NoRun == [caller |-> "none", batches |-> <<>>, concurrency |-> 0,
          on_error |-> FALSE, return_exceptions |-> FALSE,
          tasks |-> <<>>, sem |-> 0, waiters |-> <<>>, invoked |-> <<>>,
          completed |-> <<>>, errors |-> <<>>,
          outcome |-> "none", returned |-> <<>>]

\* DeltaSyncWorker(batch_size=..., concurrency=...) before start()
SyncInit(batch_size, concurrency) ==
    /\ dw = [pc |-> "new", batch_size |-> batch_size,
             concurrency |-> concurrency, raw_items |-> <<>>, ticks |-> 0,
             last |-> "none"]
    /\ sync_shutdown = FALSE
    /\ sync_stats = NoSyncStats
    /\ run = NoRun
    /\ run_calls = 0

\* the worker with the defaults of its constructor
SyncIdle == SyncInit(100, 3)

\* no download in progress
NoDownload == [pc |-> "idle", timed_out |-> FALSE, exists |-> FALSE,
               size |-> 0, remove_failed |-> FALSE, outcome |-> None]

NoProcess == [state |-> "none", returncode |-> None, awaited |-> FALSE]

\* retry_async was not called yet
NoRetry == [pc |-> "idle", caller |-> "none", func |-> "none",
            max_retries |-> 0, backoff |-> 0, max_delay |-> 0,
            exceptions |-> {}, attempt |-> 0, current_delay |-> 0,
            log |-> <<>>, sleeps |-> <<>>, outcome |-> None]

\* a Downloader that was not used yet and an empty temp directory
DownloadIdle ==
    /\ dl = NoDownload
    /\ proc = NoProcess
    /\ out_file = None
    /\ rt = NoRetry

\* a coroutine that has not called a singleton accessor yet
NoAccess == [pc |-> "idle", op |-> "none", got |-> None, raised |-> FALSE]

\* the module telegram_uploader as imported
SingletonIdle ==
    /\ _client = None
    /\ _queue = None
    /\ clients = <<>>
    /\ upload_queues = <<>>
    /\ sg = [i \in 1..NCallers |-> NoAccess]

\* a caller that is in no call of the batcher
NoBatcherCall == [pc |-> "idle", op |-> "none", item |-> 0, batch |-> <<>>]

\* AsyncBatcher(processor, batch_size, timeout) after __init__
NoBatcher(batch_size) ==
    [batch_size |-> batch_size, items |-> <<>>, timer_task |-> 0,
     holder |-> <<>>, waiters |-> <<>>,
     callers |-> [c \in 1..NCallers |-> NoBatcherCall], timers |-> <<>>,
     added |-> 0, handed |-> <<>>, processed |-> <<>>, cancelled |-> <<>>]

BatcherIdle == ab = NoBatcher(1)

\* no ingest batches run side by side
LocksIdle == txn = <<>>

ServiceIdle ==
    /\ IngestIdle /\ SyncIdle /\ DownloadIdle /\ SingletonIdle
    /\ BatcherIdle /\ LocksIdle

\* ---------------------------------------------------------------- Init
Init ==
    /\ tasks = <<>>
    /\ queues = <<>>
    /\ workers = <<>>
    /\ qitems = <<>>
    /\ wk = <<>>
    /\ shutdown_event = FALSE
    /\ active_uploads = <<>>
    /\ chat_id = UploadChatId
    /\ chat_validated = FALSE
    /\ get_chat_calls = 0
    /\ files = {}
    /\ media = {}
    /\ chat_log = <<>>
    /\ send_calls = <<>>
    /\ sh = [pc |-> "idle", gathered |-> {}]
    /\ last_poll_at = None
    /\ stats = [processed_count |-> 0, failed_count |-> 0]
    /\ LimiterInit(kodik_rps_limit * TokenScale, None)
    /\ ClientInit(FALSE)
    /\ ServiceIdle

\* the publish pipeline as constructed, for the specifications of the
\* catalog client
UploadIdle ==
    /\ tasks = <<>> /\ queues = <<>> /\ workers = <<>> /\ qitems = <<>>
    /\ wk = <<>> /\ shutdown_event = FALSE /\ active_uploads = <<>>
    /\ chat_id = UploadChatId /\ chat_validated = FALSE
    /\ get_chat_calls = 0 /\ files = {} /\ media = {} /\ chat_log = <<>>
    /\ send_calls = <<>> /\ sh = [pc |-> "idle", gathered |-> {}]
    /\ last_poll_at = None
    /\ stats = [processed_count |-> 0, failed_count |-> 0]

\* ---------------------------------------------------------------- enqueue
\* UploadWorker._process_episode after the download returned: the output
\* file is on disk, the task is built and OrderedUploadQueue.enqueue(task)
\* runs without suspending (the FIFO is unbounded)
enqueue(a, t, n, res) ==
    LET task == NewTask(a, t, n, res)
        key == queue_key(task)
        tid == Len(tasks) + 1
        nid == Len(wk) + 1
    IN  /\ Len(tasks) < MaxTasks
        /\ tasks' = Append(tasks, task)
        /\ send_calls' = Append(send_calls, 0)
        /\ IF ~HasQueue(key, queues)
           THEN /\ queues' = (key :> nid) @@ queues
                /\ workers' = (key :> nid) @@ workers
                /\ wk' = Append(wk, NewWorker(key))
                /\ qitems' = Append(qitems, <<tid>>)
           ELSE /\ qitems' = [qitems EXCEPT ![queues[key]] = Append(@, tid)]
                /\ UNCHANGED <<queues, workers, wk>>
        /\ files' = files \cup {task.file_path}
        /\ UNCHANGED <<shutdown_event, active_uploads, chatVars, media,
                       chat_log, sh, pollVars, kodikVars, serviceVars>>

\* ---------------------------------------------------------------- _worker
\* `while not self._shutdown_event.is_set()`: leave the loop, or suspend in
\* wait_for(queue.get(), timeout=1.0)
LoopHead_once == "stopped"

LoopHead == IF shutdown_event THEN "stopped" ELSE "get"

\* the worker is inside _process_task for wk[i].cur
Processing(i) == wk[i].pc \in {"validating", "checking", "sending", "marking"}

\* awaits inside _process_task at which CancelledError can be raised
AtAwait(i) == wk[i].pc \in {"validating", "sending", "marking"}

\* first step of the coroutine: queue = self._queues[key]
WorkerStart(i) ==
    /\ wk[i].pc = "created"
    /\ wk' = [wk EXCEPT ![i] =
                IF wk[i].cancel \/ wk[i].key \notin DOMAIN queues
                THEN [@ EXCEPT !.pc = "stopped", !.cancel = FALSE]
                ELSE [@ EXCEPT !.pc = LoopHead, !.queue = queues[wk[i].key]]]
    /\ UNCHANGED <<tasks, queueVars, shutdown_event, active_uploads, chatVars,
                   files, media, chat_log, send_calls, sh, pollVars, kodikVars, serviceVars>>

\* queue.get() returns the next item to the waiting wait_for
WorkerDequeue(i) ==
    /\ wk[i].pc = "get"
    /\ qitems[wk[i].queue] # <<>>
    /\ wk' = [wk EXCEPT ![i].pc = "got",
                        ![i].cur = QueueGet(qitems[wk[i].queue]).item,
                        ![i].deq_after_shutdown = shutdown_event]
    /\ qitems' = [qitems EXCEPT ![wk[i].queue] = QueueGet(@).rest]
    /\ UNCHANGED <<tasks, queues, workers, shutdown_event, active_uploads,
                   chatVars, files, media, chat_log, send_calls, sh, pollVars, kodikVars, serviceVars>>

\* except asyncio.TimeoutError: continue
WorkerGetTimeout(i) ==
    /\ wk[i].pc = "get"
    /\ ~wk[i].cancel
    /\ qitems[wk[i].queue] = <<>>
    /\ wk' = [wk EXCEPT ![i].pc = LoopHead]
    /\ UNCHANGED <<tasks, queueVars, shutdown_event, active_uploads, chatVars,
                   files, media, chat_log, send_calls, sh, pollVars, kodikVars, serviceVars>>

\* end of _process_task and of the worker's try/finally for the current
\* task: status update, cleanup of the file, _active_uploads.pop, task_done
EndTask(i, newTask, rm_ok, nextPc) ==
    LET t == wk[i].cur
        path == tasks[t].file_path
    IN  /\ tasks' = [tasks EXCEPT ![t] = newTask]
        /\ files' = FinallyFiles(files, path, rm_ok)
        /\ active_uploads' =
              [e \in DOMAIN active_uploads \ {tasks[t].episode_id}
                   |-> active_uploads[e]]
        /\ wk' = [wk EXCEPT ![i] = [NewWorker(@.key) EXCEPT
                                        !.pc = nextPc, !.queue = wk[i].queue]]

\* the worker resumes with the dequeued task: _active_uploads[...] = task,
\* task.status = UPLOADING, and _validate_chat_access is entered; get_chat
\* is requested unless the chat is already validated or is "me"
WorkerBegin(i) ==
    LET t == wk[i].cur IN
    /\ wk[i].pc = "got"
    /\ ~wk[i].cancel
    /\ tasks' = [tasks EXCEPT ![t] = TaskUploading(@)]
    /\ active_uploads' = (tasks[t].episode_id :> t) @@ active_uploads
    /\ IF chat_validated \/ chat_id = "me"
       THEN /\ wk' = [wk EXCEPT ![i].pc = "checking"]
            /\ UNCHANGED get_chat_calls
       ELSE /\ wk' = [wk EXCEPT ![i].pc = "validating"]
            /\ get_chat_calls' = get_chat_calls + 1
    /\ UNCHANGED <<chat_id, chat_validated, files, send_calls, queueVars,
                   shutdown_event, media, chat_log, sh, pollVars, kodikVars, serviceVars>>

\* get_chat returned or raised: chat validated, or fallback to "me"
WorkerValidated(i, ok) ==
    /\ wk[i].pc = "validating"
    /\ ~wk[i].cancel
    /\ chat_validated' = TRUE
    /\ chat_id' = IF ok THEN chat_id ELSE "me"
    /\ wk' = [wk EXCEPT ![i].pc = "checking"]
    /\ UNCHANGED <<tasks, active_uploads, files, send_calls, get_chat_calls,
                   queueVars, shutdown_event, media, chat_log, sh, pollVars, kodikVars, serviceVars>>

\* _process_task after _validate_chat_access: Path(file_path).exists(),
\* else FileNotFoundError; then the send_video request to self._chat_id
WorkerCheckFile(i) ==
    LET t == wk[i].cur IN
    /\ wk[i].pc = "checking"
    /\ IF tasks[t].file_path \notin files
       THEN /\ \E rm_ok \in RemoveOutcomes(tasks[wk[i].cur].file_path) :
                 EndTask(i, TaskFailed(tasks[t],
                                       FileNotFoundError(tasks[t].file_path)),
                         rm_ok, LoopHead)
            /\ UNCHANGED send_calls
       ELSE /\ wk' = [wk EXCEPT ![i].pc = "sending",
                                ![i].msg = NoMessage(chat_id)]
            /\ send_calls' = [send_calls EXCEPT ![t] = @ + 1]
            /\ UNCHANGED <<tasks, files, active_uploads>>
    /\ UNCHANGED <<chatVars, queueVars, shutdown_event, media, chat_log, sh,
                   pollVars, kodikVars, serviceVars>>

\* send_video returned a message (ids assigned by the chat in send order)
WorkerSent(i) ==
    /\ wk[i].pc = "sending"
    /\ ~wk[i].cancel
    /\ LET m == Message(Len(chat_log) + 1, wk[i].msg.chat.id)
       IN  /\ chat_log' = Append(chat_log, [msg |-> m, task |-> wk[i].cur])
           /\ wk' = [wk EXCEPT ![i].pc = "marking", ![i].msg = m]
    /\ UNCHANGED <<tasks, queueVars, shutdown_event, active_uploads, chatVars,
                   files, media, send_calls, sh, pollVars, kodikVars, serviceVars>>

\* send_video raised
WorkerSendFailed(i) ==
    /\ wk[i].pc = "sending"
    /\ ~wk[i].cancel
    /\ \E rm_ok \in RemoveOutcomes(tasks[wk[i].cur].file_path) :
          EndTask(i, TaskFailed(tasks[wk[i].cur], SendError), rm_ok, LoopHead)
    /\ UNCHANGED <<queueVars, shutdown_event, chatVars, media, chat_log,
                   send_calls, sh, pollVars, kodikVars, serviceVars>>

\* mark_media executed and the transaction committed
WorkerMarked(i) ==
    /\ wk[i].pc = "marking"
    /\ ~wk[i].cancel
    /\ media' = MarkTask(media, tasks[wk[i].cur], wk[i].msg)
    /\ \E rm_ok \in RemoveOutcomes(tasks[wk[i].cur].file_path) :
          EndTask(i, TaskCompleted(tasks[wk[i].cur], wk[i].msg), rm_ok, LoopHead)
    /\ UNCHANGED <<queueVars, shutdown_event, chatVars, chat_log, send_calls,
                   sh, pollVars, kodikVars, serviceVars>>

\* mark_media or the commit raised: the transaction is rolled back
WorkerMarkFailed(i) ==
    /\ wk[i].pc = "marking"
    /\ ~wk[i].cancel
    /\ \E rm_ok \in RemoveOutcomes(tasks[wk[i].cur].file_path) :
          EndTask(i, TaskFailed(tasks[wk[i].cur], DbError), rm_ok, LoopHead)
    /\ UNCHANGED <<queueVars, shutdown_event, chatVars, media, chat_log,
                   send_calls, sh, pollVars, kodikVars, serviceVars>>

\* CancelledError raised at the await the worker is suspended on.
\* Inside _process_task it passes `except Exception`, runs the finally
\* blocks and reaches `except asyncio.CancelledError: break`.
WorkerCancelled(i) ==
    /\ wk[i].cancel
    /\ \/ /\ wk[i].pc = "get"
          /\ wk' = [wk EXCEPT ![i].pc = "stopped", ![i].cancel = FALSE]
          /\ UNCHANGED <<tasks, files, active_uploads, qitems>>
       \/ \* Queue.get is cancelled before it takes the item it was woken
          \* for (Python 3.12+): the item stays at the head of the FIFO
          /\ wk[i].pc = "got"
          /\ wk' = [wk EXCEPT ![i].pc = "stopped", ![i].cancel = FALSE,
                              ![i].cur = 0]
          /\ qitems' = [qitems EXCEPT ![wk[i].queue] = <<wk[i].cur>> \o @]
          /\ UNCHANGED <<tasks, files, active_uploads>>
       \/ /\ AtAwait(i)
          /\ \E rm_ok \in RemoveOutcomes(tasks[wk[i].cur].file_path) :
                EndTask(i, tasks[wk[i].cur], rm_ok, "stopped")
          /\ UNCHANGED qitems
    /\ UNCHANGED <<queues, workers, shutdown_event, chatVars, media, chat_log,
                   send_calls, sh, pollVars, kodikVars, serviceVars>>

\* wait_for returns the item it already holds although the worker was
\* cancelled (asyncio.wait_for before Python 3.12): the request is consumed
WorkerCancelSwallowed(i) ==
    /\ wk[i].cancel
    /\ wk[i].pc = "got"
    /\ wk' = [wk EXCEPT ![i].cancel = FALSE]
    /\ UNCHANGED <<tasks, queueVars, shutdown_event, active_uploads, chatVars,
                   files, media, chat_log, send_calls, sh, pollVars, kodikVars, serviceVars>>

\* ---------------------------------------------------------------- shutdown
\* mutant: shutdown does not wait for the gathered workers
GatherDone_nowait(gathered) == TRUE

\* gather(*workers) has completed: every gathered worker task is done
GatherDone(gathered) == \A i \in gathered : wk[i].pc = "stopped"

\* Task.cancel() on every worker in ws that is not done yet
CancelAll(ws) ==
    [i \in DOMAIN wk |->
        IF i \in ws /\ wk[i].pc # "stopped"
        THEN [wk[i] EXCEPT !.cancel = TRUE] ELSE wk[i]]

\* UploadWorker.stop -> OrderedUploadQueue.shutdown: set the flag, then
\* wait_for(gather(*self._workers.values()), timeout)
ShutdownCall ==
    /\ sh.pc = "idle"
    /\ shutdown_event' = TRUE
    /\ IF DOMAIN workers = {}
       THEN sh' = [sh EXCEPT !.pc = "done"]
       ELSE sh' = [pc |-> "waiting", gathered |-> Range(workers)]
    /\ UNCHANGED <<tasks, queueVars, wk, active_uploads, chatVars, files,
                   media, chat_log, send_calls, pollVars, kodikVars, serviceVars>>

\* all workers stopped before the deadline: clear both maps and return
ShutdownGathered ==
    /\ sh.pc = "waiting"
    /\ GatherDone(sh.gathered)
    /\ sh' = [sh EXCEPT !.pc = "done"]
    /\ queues' = <<>>
    /\ workers' = <<>>
    /\ UNCHANGED <<tasks, qitems, wk, shutdown_event, active_uploads, chatVars,
                   files, media, chat_log, send_calls, pollVars, kodikVars, serviceVars>>

\* the deadline passes: wait_for cancels the gather, which cancels every
\* gathered worker, and waits until the gather has finished
ShutdownTimeout ==
    /\ sh.pc = "waiting"
    /\ ~GatherDone(sh.gathered)
    /\ wk' = CancelAll(sh.gathered)
    /\ sh' = [sh EXCEPT !.pc = "cancelling"]
    /\ UNCHANGED <<tasks, queueVars, shutdown_event, active_uploads, chatVars,
                   files, media, chat_log, send_calls, pollVars, kodikVars, serviceVars>>

\* except asyncio.TimeoutError: worker.cancel() for every registered worker;
\* then clear both maps and return
ShutdownCancelled ==
    /\ sh.pc = "cancelling"
    /\ GatherDone(sh.gathered)
    /\ wk' = CancelAll(Range(workers))
    /\ sh' = [sh EXCEPT !.pc = "done"]
    /\ queues' = <<>>
    /\ workers' = <<>>
    /\ UNCHANGED <<tasks, qitems, shutdown_event, active_uploads, chatVars,
                   files, media, chat_log, send_calls, pollVars, kodikVars, serviceVars>>

\* ---------------------------------------------------------------- UploadWorker
\* UploadWorker(batch_size=10): the limit of one poll
upload_batch_size == 10

\* WHERE episode_media.episode_id IS NULL
EpisodesWithoutMedia ==
    {e \in Episodes : \A r \in media : r.episode_id # e}

\* one iteration of _run_loop: _poll_and_process sets last_poll_at and
\* evaluates `repo.get_episodes_without_media`; the module app.db.repo has
\* no such attribute (it is a method of AnimeRepository), so AttributeError
\* is raised before any episode is processed and _run_loop logs it
poll_and_process ==
    /\ ~shutdown_event
    /\ "get_episodes_without_media" \notin RepoModuleAttrs
    /\ last_poll_at' = Some("utcnow")
    /\ UNCHANGED <<stats, tasks, queueVars, wk, shutdown_event, active_uploads,
                   chatVars, files, media, chat_log, send_calls, sh, kodikVars, serviceVars>>

\* ---------------------------------------------------------------- Next
Next ==
    \/ \E e \in Episodes :
          enqueue(e[1], e[2], e[3], DownloadResult(Len(tasks) + 1))
    \/ \E i \in DOMAIN wk : WorkerStart(i)
    \/ \E i \in DOMAIN wk : WorkerDequeue(i)
    \/ \E i \in DOMAIN wk : WorkerGetTimeout(i)
    \/ \E i \in DOMAIN wk : WorkerBegin(i)
    \/ \E i \in DOMAIN wk, ok \in BOOLEAN : WorkerValidated(i, ok)
    \/ \E i \in DOMAIN wk : WorkerCheckFile(i)
    \/ \E i \in DOMAIN wk : WorkerSent(i)
    \/ \E i \in DOMAIN wk : WorkerSendFailed(i)
    \/ \E i \in DOMAIN wk : WorkerMarked(i)
    \/ \E i \in DOMAIN wk : WorkerMarkFailed(i)
    \/ \E i \in DOMAIN wk : WorkerCancelled(i)
    \/ \E i \in DOMAIN wk : WorkerCancelSwallowed(i)
    \/ ShutdownCall
    \/ ShutdownGathered
    \/ ShutdownTimeout
    \/ ShutdownCancelled
    \/ poll_and_process

Spec == Init /\ [][Next]_vars

TypeOK ==
    /\ Len(tasks) <= MaxTasks
    /\ Len(wk) <= Len(tasks)
    /\ DOMAIN queues = DOMAIN workers
    /\ \A i \in DOMAIN wk : wk[i].pc \in {"created", "get", "got",
            "validating", "checking", "sending", "marking", "stopped"}

\* ================================================================ claims
Terminal == {COMPLETED, FAILED}

TaskIds == DOMAIN tasks

SameKey(t, u) == queue_key(tasks[t]) = queue_key(tasks[u])

\* C1: per key the tasks are processed strictly one at a time and in
\* enqueue order: two workers are never inside _process_task for tasks of
\* the same key, and while a worker processes a task (send_video included)
\* every task enqueued earlier under the same key is COMPLETED or FAILED.
C1_OrderedPerKey ==
    /\ \A i, j \in DOMAIN wk :
          (i # j /\ Processing(i) /\ Processing(j))
             => ~SameKey(wk[i].cur, wk[j].cur)
    /\ \A i \in DOMAIN wk :
          Processing(i) =>
             \A u \in TaskIds :
                (u < wk[i].cur /\ SameKey(u, wk[i].cur))
                   => tasks[u].status \in Terminal

\* send_video is in flight for the second task of a key whose first task
\* has finished
C1_Witness ==
    \E i \in DOMAIN wk :
       /\ wk[i].pc = "sending"
       /\ wk[i].cur = 2
       /\ SameKey(1, 2)
       /\ tasks[1].status \in Terminal

\* the tasks of key k were enqueued in increasing episode number
InNumberOrder(k) ==
    \A t, u \in TaskIds :
       (t < u /\ queue_key(tasks[t]) = k /\ queue_key(tasks[u]) = k)
          => tasks[t].number < tasks[u].number

RowKey(r) == <<r.episode_id[1], r.episode_id[2]>>

\* C2: with a chat that numbers messages increasingly, the message ids
\* recorded for one (anime, translation) increase with enqueue order; when
\* the episodes of a pair were enqueued in number order the stored
\* telegram_message_id is strictly increasing in the episode number.
C2_MonotonicMessageIds ==
    /\ \A t, u \in TaskIds :
          (t < u /\ SameKey(t, u)
             /\ tasks[t].telegram_message_id # None
             /\ tasks[u].telegram_message_id # None)
          => tasks[t].telegram_message_id[1] < tasks[u].telegram_message_id[1]
    /\ \A r1, r2 \in media :
          (RowKey(r1) = RowKey(r2) /\ InNumberOrder(RowKey(r1))
             /\ r1.episode_id[3] < r2.episode_id[3])
          => r1.telegram_message_id < r2.telegram_message_id

\* two episodes of one pair, enqueued in number order, are both published
C2_Witness ==
    \E r1, r2 \in media :
       /\ RowKey(r1) = RowKey(r2)
       /\ InNumberOrder(RowKey(r1))
       /\ r1.episode_id[3] < r2.episode_id[3]

\* no worker is inside _process_task for task t
NotInProcess(t) == \A i \in DOMAIN wk : ~(Processing(i) /\ wk[i].cur = t)

HasRow(e) == \E r \in media : r.episode_id = e

RowFor(r, task, msg) ==
    /\ r.episode_id = task.episode_id
    /\ r.telegram_chat_id = msg.chat.id
    /\ r.telegram_message_id = msg.id
    /\ r.file_unique_id = msg.video.file_unique_id
    /\ r.quality = task.quality
    /\ r.source_url = None
    /\ r.checksum = task.checksum
    /\ r.size_bytes = IF task.size_bytes \in {None, Some(0)}
                      THEN msg.video.file_size ELSE task.size_bytes

\* C4: after any sequence of mark_media calls there is at most one row per
\* episode_id, and each call leaves exactly the row of its own arguments
\* for its episode and the rows of the other episodes untouched.
C4_OneRowLastCall ==
    /\ [](\A r1, r2 \in media : r1.episode_id = r2.episode_id => r1 = r2)
    /\ [][\A i \in DOMAIN wk :
             WorkerMarked(i) =>
                LET task == tasks[wk[i].cur] IN
                /\ \A r \in media' :
                      r.episode_id = task.episode_id
                         => RowFor(r, task, wk[i].msg)
                /\ \E r \in media' : r.episode_id = task.episode_id
                /\ {r \in media' : r.episode_id # task.episode_id}
                     = {r \in media : r.episode_id # task.episode_id}]_vars

\* the same episode was published twice; its row holds the second message
C4_Witness ==
    /\ Len(tasks) >= 2
    /\ tasks[1].episode_id = tasks[2].episode_id
    /\ tasks[1].status = COMPLETED
    /\ tasks[2].status = COMPLETED
    /\ \E r \in media :
          /\ r.episode_id = tasks[2].episode_id
          /\ Some(r.telegram_message_id) = tasks[2].telegram_message_id
          /\ r.checksum = tasks[2].checksum

\* C5 (as stated): on every poll tick each episode without a media row is
\* attempted, i.e. handed to _process_episode, which counts it in
\* processed_count or failed_count.
C5_RetriedEveryTick ==
    (last_poll_at # None /\ EpisodesWithoutMedia # {})
       => stats.processed_count + stats.failed_count
             >= Cardinality(EpisodesWithoutMedia)

\* the exception raised when step `i` of processing fails
Raised(i, exc) ==
    \/ /\ exc = FileNotFoundError(tasks[wk[i].cur].file_path)
       /\ WorkerCheckFile(i)
       /\ tasks[wk[i].cur].file_path \notin files
    \/ exc = SendError /\ WorkerSendFailed(i)
    \/ exc = DbError /\ WorkerMarkFailed(i)

Exceptions ==
    {SendError, DbError} \cup
    {FileNotFoundError(tasks[t].file_path) : t \in TaskIds}

\* C6: when a step of processing raises, the task ends FAILED with error =
\* str(exc) and the worker returns to its loop (waiting for the next task
\* unless shutdown was requested); a FAILED task stays FAILED and
\* send_video is invoked at most once per task.
C6_FailedNoRetry ==
    /\ [](\A t \in TaskIds : send_calls[t] <= 1)
    /\ [][\A i \in DOMAIN wk : \A exc \in Exceptions :
             Raised(i, exc) =>
                /\ tasks'[wk[i].cur].status = FAILED
                /\ tasks'[wk[i].cur].error = Some(exc.text)
                /\ wk'[i].pc = IF shutdown_event THEN "stopped" ELSE "get"]_vars
    /\ [][\A t \in TaskIds :
             tasks[t].status = FAILED =>
                tasks'[t].status = FAILED /\ send_calls'[t] = send_calls[t]]_vars

\* the first task of a key failed and the worker is processing the next
C6_Witness ==
    \E i \in DOMAIN wk :
       /\ Processing(i)
       /\ wk[i].cur = 2
       /\ SameKey(1, 2)
       /\ tasks[1].status = FAILED
       /\ tasks[1].error # None

StatusSteps ==
    {<<PENDING, UPLOADING>>, <<UPLOADING, COMPLETED>>, <<UPLOADING, FAILED>>}

\* C7: a task's status changes only PENDING -> UPLOADING -> COMPLETED or
\* FAILED, a new task starts PENDING, and telegram_message_id is set only
\* while the status is COMPLETED.
C7_StatusMachine ==
    /\ [](\A t \in TaskIds :
             tasks[t].telegram_message_id # None => tasks[t].status = COMPLETED)
    /\ [][\A t \in DOMAIN tasks' :
             IF t \in TaskIds
             THEN tasks'[t].status # tasks[t].status
                     => <<tasks[t].status, tasks'[t].status>> \in StatusSteps
             ELSE tasks'[t].status = PENDING]_vars

\* one task ended COMPLETED with its message id, another ended FAILED
C7_Witness ==
    \E t, u \in TaskIds :
       /\ tasks[t].status = COMPLETED
       /\ tasks[t].telegram_message_id # None
       /\ tasks[u].status = FAILED

\* processing of the current task of worker i ends in this step
EndsProcessing(i) ==
    /\ Processing(i)
    /\ ~(wk'[i].pc \in {"validating", "checking", "sending", "marking"}
         /\ wk'[i].cur = wk[i].cur)

\* C8 (as stated): when processing of a task ends, its local file no longer
\* exists, on every exit path.
C8_FileGone ==
    [][\A i \in DOMAIN wk :
          EndsProcessing(i) => tasks[wk[i].cur].file_path \notin files']_vars

\* C8 (amended): when processing of a task ends (success, failure at any
\* step, cancellation), _cleanup_file has run: the file no longer exists
\* unless os.remove raised OSError, which is logged and swallowed.
C8_FileGoneUnlessOSError ==
    [][\A i \in DOMAIN wk :
          EndsProcessing(i) =>
             (\/ tasks[wk[i].cur].file_path \notin files'
              \/ tasks[wk[i].cur].file_path \in ReadOnlyFiles)]_vars

\* a task was cancelled during send_video or mark_media (it stays
\* UPLOADING with no worker on it) and its file has been removed
C8_Witness ==
    /\ Len(tasks) = 1
    /\ tasks[1].file_path \notin ReadOnlyFiles
    /\ tasks[1].status = UPLOADING
    /\ NotInProcess(1)
    /\ send_calls[1] = 1
    /\ tasks[1].file_path \notin files

\* C9 (as stated): no send_video begins for a task that its worker dequeued
\* after the shutdown flag had been set.
C9_NoSendAfterShutdown ==
    \A i \in DOMAIN wk :
       wk[i].pc \in {"sending", "marking"} => ~wk[i].deq_after_shutdown

InLock(i) ==
    LET t == Refill(tokens, elapsed) IN
    /\ elapsed' = 0
    /\ IF t < TokenScale
       THEN /\ tokens' = t
            /\ acq' = [acq EXCEPT ![i] = [pc |-> "sleep",
                                          wait |-> TokenScale - t,
                                          slept |-> 0]]
            /\ lock_holder' = Some(i)
            /\ UNCHANGED acquired
       ELSE /\ tokens' = t - TokenScale
            /\ acq' = [acq EXCEPT ![i] = IdleCaller]
            /\ lock_holder' = None
            /\ acquired' = IF now < MaxTime THEN Append(acquired, now)
                                            ELSE acquired

\* a coroutine calls acquire(): asyncio.Lock.acquire takes a free lock with
\* no waiters at once, otherwise the caller queues on the lock
acquire(i) ==
    /\ acq[i].pc = "idle"
    /\ IF lock_holder = None /\ lock_waiters = <<>>
       THEN InLock(i) /\ UNCHANGED lock_waiters
       ELSE /\ acq' = [acq EXCEPT ![i].pc = "lock"]
            /\ lock_waiters' = Append(lock_waiters, i)
            /\ UNCHANGED <<tokens, elapsed, lock_holder, acquired>>
    /\ UNCHANGED <<rate, capacity, now, uploadVars, serviceVars>>

\* the lock was released and this caller is the first waiter
LockAcquired(i) ==
    /\ acq[i].pc = "lock"
    /\ lock_holder = None
    /\ lock_waiters # <<>> /\ Head(lock_waiters) = i
    /\ lock_waiters' = Tail(lock_waiters)
    /\ InLock(i)
    /\ UNCHANGED <<rate, capacity, now, uploadVars, serviceVars>>

\* asyncio.sleep(wait_time) returns, not before wait_time has passed:
\* _refill() again and the `while` test again
Wake(i) ==
    /\ acq[i].pc = "sleep"
    /\ acq[i].slept * rate >= acq[i].wait
    /\ InLock(i)
    /\ UNCHANGED <<lock_waiters, rate, capacity, now, uploadVars, serviceVars>>

\* one second of loop.time() passes
Tick ==
    /\ elapsed' = Min(elapsed + 1, SatTime)
    /\ acq' = [i \in Callers |->
                 IF acq[i].pc = "sleep"
                 THEN [acq[i] EXCEPT !.slept = Min(@ + 1, SatTime)]
                 ELSE acq[i]]
    /\ now' = Min(now + 1, MaxTime)
    /\ UNCHANGED <<rate, capacity, tokens, lock_holder, lock_waiters,
                   acquired, uploadVars, serviceVars>>

InitLimiter ==
    /\ UploadIdle
    /\ ServiceIdle
    /\ ClientInit(FALSE)
    /\ \E r \in Rates, c \in CapacityArgs : LimiterInit(r, c)

NextLimiter ==
    \/ \E i \in Callers : acquire(i) /\ UNCHANGED clientVars
    \/ \E i \in Callers : LockAcquired(i) /\ UNCHANGED clientVars
    \/ \E i \in Callers : Wake(i) /\ UNCHANGED clientVars
    \/ Tick /\ UNCHANGED clientVars

SpecLimiter == InitLimiter /\ [][NextLimiter]_vars

\* the event loop keeps running every coroutine that can run, and time
\* passes
FairSpecLimiter ==
    /\ SpecLimiter
    /\ WF_vars(Tick /\ UNCHANGED clientVars)
    /\ \A i \in Callers : /\ WF_vars(LockAcquired(i) /\ UNCHANGED clientVars)
                          /\ WF_vars(Wake(i) /\ UNCHANGED clientVars)

\* ---------------------------------------------------------------- C11
\* caller i completes acquire() in this step
Completes(i) ==
    /\ acquire(i) \/ LockAcquired(i) \/ Wake(i)
    /\ acq'[i].pc = "idle"

\* C11: the token count stays within [0, c]; every completed acquire
\* consumes exactly one token of the refilled bucket; and any k completions
\* that fall in a window of length T satisfy k <= c + r*T (all quantities
\* in token units), for any number of concurrent callers.
C11_TokenBucket ==
    /\ [](/\ 0 <= tokens /\ tokens <= capacity * TokenScale
          /\ \A i, j \in DOMAIN acquired :
                i <= j => (j - i + 1) * TokenScale
                            <= capacity * TokenScale
                               + rate * (acquired[j] - acquired[i]))
    /\ [][\A i \in Callers :
             Completes(i) =>
                tokens' = Min(capacity * TokenScale, tokens + elapsed * rate)
                          - TokenScale]_vars

\* more acquires than the capacity have completed, the last one after
\* sleeping for a refill while another caller was queued on the lock
C11_Witness ==
    /\ capacity >= 1
    /\ Len(acquired) > capacity
    /\ acquired[Len(acquired)] > 0
    /\ \E i \in Callers : acq[i].pc = "lock"

\* ---------------------------------------------------------------- C12
\* C12 (as stated): a caller asleep waiting for refill does not hold the
\* limiter's mutex.
C12_NoSleepInsideLock ==
    \A i \in Callers : acq[i].pc = "sleep" => lock_holder # Some(i)

\* ---------------------------------------------------------------- C13
\* C13 (as stated): with the default capacity (capacity = int(rate)), for
\* every rate r > 0, every call of acquire() eventually returns.
C13_AcquireReturns ==
    (capacity = IntRate(rate)) =>
        \A i \in Callers : (acq[i].pc # "idle") ~> (acq[i].pc = "idle")

\* the same for rates of at least one token per second
C13_ReturnsWhenCapacityPositive ==
    (capacity >= 1) =>
        \A i \in Callers : (acq[i].pc # "idle") ~> (acq[i].pc = "idle")

\* ================================================================ KodikClient
\* Strings are sequences of characters; Python compares str by code point.
DigitChars == <<"0", "1", "2", "3", "4", "5", "6", "7", "8", "9">>
Digit(n) == DigitChars[n + 1]
DigitVal(c) == CHOOSE n \in 0..9 : DigitChars[n + 1] = c
Digits2(n) == <<Digit(n \div 10), Digit(n % 10)>>

\* ord(c) of the characters that occur in ISO-8601 timestamps
Ord(c) ==
    CASE c = "+" -> 43
      [] c = "." -> 46
      [] c = ":" -> 58
      [] c = "Z" -> 90
      [] OTHER -> 48 + DigitVal(c)

\* a < b for Python str
RECURSIVE StrLess(_, _)
StrLess(a, b) ==
    IF b = <<>> THEN FALSE
    ELSE IF a = <<>> THEN TRUE
    ELSE IF Ord(Head(a)) < Ord(Head(b)) THEN TRUE
    ELSE IF Ord(Head(a)) > Ord(Head(b)) THEN FALSE
    ELSE StrLess(Tail(a), Tail(b))

\* the catalog's updated_at of an item updated at hour h UTC, "hh:00:00Z"
\* (the date, the same for every timestamp here, is left out)
ServerStamp(h) == Digits2(h) \o <<":", "0", "0", ":", "0", "0", "Z">>

\* the instant a catalog timestamp denotes, as an order-preserving key:
\* hour * 10 + tenths of a second (minutes and seconds are zero here)
StampInstant(str) == (DigitVal(str[1]) * 10 + DigitVal(str[2])) * 10

\* datetime.isoformat() of an aware datetime: "hh:00:00[.f]+oo:00", the
\* fraction printed only when it is not zero
IsoFormat(dt) ==
    Digits2(dt.hour) \o <<":", "0", "0", ":", "0", "0">>
       \o (IF dt.fraction = 0 THEN <<>> ELSE <<".", Digit(dt.fraction)>>)
       \o <<"+">> \o Digits2(dt.utcoffset) \o <<":", "0", "0">>

\* the instant an aware datetime denotes, as the same key
Instant(dt) == (dt.hour - dt.utcoffset) * 10 + dt.fraction

\* the feed, sorted by updated_at descending: FeedPages pages of PageSize
\* items, one item per hour, the oldest updated at 03:00:00Z
FirstHour == FeedPages * PageSize + 3
Item(h) == [id |-> h, updated_at |-> ServerStamp(h)]
Feed == [p \in 1..FeedPages |->
            [k \in 1..PageSize |-> Item(FirstHour - ((p - 1) * PageSize + k))]]

\* the `updated_since` arguments: aware datetimes in UTC or UTC+3, with or
\* without a fraction of a second, whose wall-clock hour is the hour of
\* the first item of page 2 or three hours later
SecondPageHour == FirstHour - PageSize - 1
Datetimes == [hour : {SecondPageHour, SecondPageHour + 3},
              fraction : {0, 5}, utcoffset : {0, 3}]

\* the `max_pages` arguments
MaxPagesArgs == {None} \cup {Some(n) : n \in 0..FeedPages}

\* the caller of RateLimiter.acquire that is the catalog client
ClientCaller == CHOOSE i \in Callers : TRUE

\* a request in flight for the page behind cursor `next`
Request(via, next) == [via |-> via, next |-> next, resp |-> "pending"]
PageOf(next) == IF next = None THEN 1 ELSE next[1]
Answered(log, resp) == [log EXCEPT ![Len(log)].resp = resp]

\* response bodies of GET /list: a page with its next_page URL (its query
\* string), a page whose next_page is missing, an object without results
Body(outcome, page) ==
    CASE outcome = "ok" ->
            [results |-> Some(Feed[page]),
             next_page |-> IF page < FeedPages
                           THEN Some([next |-> page + 1]) ELSE None]
      [] outcome = "nocursor" ->
            [results |-> Some(Feed[page]), next_page |-> None]
      [] OTHER -> [results |-> None, next_page |-> None]

\* next_from: the `next` query parameter of next_page, if any
NextFrom(next_page) ==
    IF next_page = None THEN None
    ELSE IF "next" \in DOMAIN next_page[1] THEN Some(next_page[1].next)
    ELSE None

\* data.get("results", [])
Results(body) == IF body.results = None THEN <<>> ELSE body.results[1]

\* outcomes of client.get + raise_for_status + response.json
DirectOutcomes == {"ok", "nocursor", "noresults", "timeout", "refused",
                   "404", "429", "badjson"}
DirectError(outcome) ==
    CASE outcome = "timeout" -> "httpx.ReadTimeout"
      [] outcome = "refused" -> "httpx.ConnectError"
      [] outcome = "badjson" -> "json.JSONDecodeError"
      [] OTHER -> "httpx.HTTPStatusError"

\* outcomes of a call of the parser library: a value or an exception
LibraryOutcomes == {"ok", "ConnectionError", "KeyError"}

RETRY_EXCEPTIONS == {"asyncio.TimeoutError", "ConnectionError", "OSError"}

\* mutant: the same delay before every retry
RetryDelay_constant(attempt) == RETRY_DELAY_BASE

\* delay = self.RETRY_DELAY_BASE * (2 ** (attempt - 1))
RetryDelay(attempt) == RETRY_DELAY_BASE * 2 ^ (attempt - 1)

\* [item for item in items if _get_updated_at(item) >= updated_since_str]
Filter(items, since) ==
    SelectSeq(items, LAMBDA item : ~StrLess(item.updated_at, since))

\* ---------------------------------------------------------------- calls
\* the frame of a call up to its first suspension: the first _with_retry
\* attempt awaits self._rate_limiter.acquire()
CallFrame(op, since, max_pages) ==
    [NoCall EXCEPT !.pc = "acquire", !.op = op, !.max_pages = max_pages,
                   !.updated_since = since, !.attempt = 1]

\* fetch_full_list(max_pages) -> _fetch_page -> _with_retry ->
\* _fetch_page_internal
fetch_full_list(max_pages) ==
    /\ kc.pc = "idle"
    /\ kc' = CallFrame("full", <<>>, max_pages)
    /\ sleeps' = <<>>
    /\ UNCHANGED <<kodik_token, http_log, acquires, result, limiterVars,
                   uploadVars, serviceVars>>

\* fetch_delta(updated_since, max_pages): updated_since.isoformat(), then
\* fetch_full_list
fetch_delta(updated_since, max_pages) ==
    /\ kc.pc = "idle"
    /\ kc' = CallFrame("delta", IsoFormat(updated_since), max_pages)
    /\ sleeps' = <<>>
    /\ UNCHANGED <<kodik_token, http_log, acquires, result, limiterVars,
                   uploadVars, serviceVars>>

\* get_episode_m3u8 -> _with_retry -> _get_m3u8_internal
get_episode_m3u8 ==
    /\ kc.pc = "idle"
    /\ kc' = CallFrame("m3u8", <<>>, None)
    /\ sleeps' = <<>>
    /\ UNCHANGED <<kodik_token, http_log, acquires, result, limiterVars,
                   uploadVars, serviceVars>>

\* acquire() returned: the request goes out, by client.get when there is a
\* token and the call is a page fetch, by the parser library otherwise
AcquireDone ==
    /\ kc.pc = "acquire"
    /\ acquire(ClientCaller)
    /\ acq'[ClientCaller].pc = "idle"
    /\ acquires' = acquires + 1
    /\ IF kodik_token /\ kc.op # "m3u8"
       THEN /\ http_log' = Append(http_log, Request("httpx", kc.next_page))
            /\ kc' = [kc EXCEPT !.pc = "get", !.api_attempt = 0]
       ELSE /\ http_log' = Append(http_log, Request("parser", kc.next_page))
            /\ kc' = [kc EXCEPT !.pc = "lib"]
    /\ UNCHANGED <<kodik_token, sleeps, result>>

\* mutant: the page limit is tested before the page is counted
StopPaging_late(next_from, page_count, max_pages) ==
    \/ next_from = None
    \/ Truthy(max_pages) /\ page_count - 1 >= max_pages[1]

\* `if not next_page: break` and
\* `if max_pages and page_count >= max_pages: break`
StopPaging(next_from, page_count, max_pages) ==
    \/ next_from = None
    \/ Truthy(max_pages) /\ page_count >= max_pages[1]

\* _fetch_page returned (batch, next_page) to the loop of fetch_full_list
PageDone(batch, next_from) ==
    LET res == kc.results \o batch
        cnt == kc.page_count + 1
        stop == StopPaging(next_from, cnt, kc.max_pages)
    IN  IF stop
        THEN /\ kc' = [kc EXCEPT !.pc = "done", !.results = res,
                                 !.page_count = cnt, !.next_page = next_from]
             /\ result' = Returned(IF kc.op = "delta"
                                   THEN Filter(res, kc.updated_since)
                                   ELSE res)
             /\ UNCHANGED sleeps
        ELSE /\ kc' = [kc EXCEPT !.pc = "acquire", !.results = res,
                                 !.page_count = cnt, !.next_page = next_from,
                                 !.attempt = 1]
             /\ sleeps' = <<>>
             /\ UNCHANGED result

\* an exception leaves the function called by _with_retry
Propagate(exc) ==
    IF exc \in RETRY_EXCEPTIONS
    THEN IF kc.attempt < MAX_RETRIES
         THEN /\ kc' = [kc EXCEPT !.pc = "retry_sleep"]
              /\ sleeps' = Append(sleeps, RetryDelay(kc.attempt))
              /\ UNCHANGED result
         ELSE /\ kc' = [kc EXCEPT !.pc = "done"]
              /\ result' = Raises("KodikNetworkError")
              /\ UNCHANGED sleeps
    ELSE /\ kc' = [kc EXCEPT !.pc = "done"]
         /\ result' = Raises(exc)
         /\ UNCHANGED sleeps

\* client.get(...) ends: `for attempt in range(3)` of _fetch_page_direct_api
GetResponse(outcome) ==
    LET body == Body(outcome, PageOf(kc.next_page)) IN
    /\ kc.pc = "get"
    /\ outcome = "nocursor" => PageOf(kc.next_page) < FeedPages
    /\ http_log' = Answered(http_log, outcome)
    /\ IF outcome \in {"ok", "nocursor", "noresults"}
       THEN PageDone(Results(body), NextFrom(body.next_page))
       ELSE IF outcome = "timeout" /\ kc.api_attempt # 2
       THEN /\ kc' = [kc EXCEPT !.pc = "api_sleep"]
            /\ sleeps' = Append(sleeps, 2 ^ kc.api_attempt)
            /\ UNCHANGED result
       ELSE Propagate(DirectError(outcome))
    /\ UNCHANGED <<kodik_token, acquires, limiterVars, uploadVars, serviceVars>>

\* asyncio.sleep(2 ** attempt) returns: the next client.get
ApiSleepDone ==
    /\ kc.pc = "api_sleep"
    /\ kc' = [kc EXCEPT !.pc = "get", !.api_attempt = @ + 1]
    /\ http_log' = Append(http_log, Request("httpx", kc.next_page))
    /\ UNCHANGED <<kodik_token, acquires, sleeps, result, limiterVars,
                   uploadVars, serviceVars>>

\* self._parser.get_list / get_m3u8_playlist_link ends
LibResponse(outcome) ==
    LET page == PageOf(kc.next_page) IN
    /\ kc.pc = "lib"
    /\ http_log' = Answered(http_log, outcome)
    /\ IF outcome # "ok" THEN Propagate(outcome)
       ELSE IF kc.op = "m3u8"
       THEN /\ kc' = [kc EXCEPT !.pc = "done"]
            /\ result' = Returned(<<"m3u8">>)
            /\ UNCHANGED sleeps
       ELSE PageDone(Feed[page],
                     IF page < FeedPages THEN Some(page + 1) ELSE None)
    /\ UNCHANGED <<kodik_token, acquires, limiterVars, uploadVars, serviceVars>>

\* asyncio.sleep(delay) of _with_retry returns: the next attempt
RetrySleepDone ==
    /\ kc.pc = "retry_sleep"
    /\ kc' = [kc EXCEPT !.pc = "acquire", !.attempt = @ + 1]
    /\ UNCHANGED <<kodik_token, http_log, acquires, sleeps, result,
                   limiterVars, uploadVars, serviceVars>>

InitClient ==
    /\ UploadIdle
    /\ ServiceIdle
    /\ LimiterInit(kodik_rps_limit * TokenScale, None)
    /\ \E has_token \in BOOLEAN : ClientInit(has_token)

NextClient ==
    \/ \E mp \in MaxPagesArgs : fetch_full_list(mp)
    \/ \E dt \in Datetimes, mp \in MaxPagesArgs : fetch_delta(dt, mp)
    \/ get_episode_m3u8
    \/ AcquireDone
    \/ \E outcome \in DirectOutcomes : GetResponse(outcome)
    \/ ApiSleepDone
    \/ \E outcome \in LibraryOutcomes : LibResponse(outcome)
    \/ RetrySleepDone

SpecClient == InitClient /\ [][NextClient]_vars

\* ---------------------------------------------------------------- C14
\* C14 (as stated): at every moment the number of HTTP requests issued is
\* at most the number of completed acquires of the client.
C14_AcquirePerRequest == Len(http_log) <= acquires

\* ---------------------------------------------------------------- C15
\* responses after which the same request is attempted again
TransientOutcomes == {"timeout"} \cup RETRY_EXCEPTIONS

\* the attempts made so far for the page (or the lookup) in progress
Attempts == {i \in DOMAIN http_log : http_log[i].next = kc.next_page}

\* C15: a page fetch or playlist lookup makes at most 3 attempts; an attempt
\* is repeated only after a transient failure; the waits before the second
\* and the third attempt are 1 s and 2 s; and the first attempt that
\* succeeds ends the fetch with that attempt's result.
C15_RetryPolicy ==
    /\ [](/\ \A i, j \in DOMAIN http_log :
                (i < j /\ http_log[i].next = http_log[j].next)
                   => http_log[i].resp \in TransientOutcomes
          /\ kc.pc \in {"get", "lib"} =>
                /\ Cardinality(Attempts) <= 3
                /\ Len(sleeps) = Cardinality(Attempts) - 1
                /\ \A k \in DOMAIN sleeps : sleeps[k] = 2 ^ (k - 1))
    /\ [][/\ GetResponse("ok") =>
                /\ kc'.results = kc.results \o Feed[PageOf(kc.next_page)]
                /\ kc'.pc \in {"done", "acquire"}
          /\ LibResponse("ok") =>
                /\ kc.op = "m3u8" => result' = Returned(<<"m3u8">>)
                /\ kc.op # "m3u8" =>
                      kc'.results = kc.results \o Feed[PageOf(kc.next_page)]
                /\ kc'.pc \in {"done", "acquire"}]_vars

\* a page fetch succeeded at its third attempt, after waits of 1 s and 2 s
C15_Witness ==
    /\ kc.pc = "done"
    /\ result.kind = "return"
    /\ sleeps = <<1, 2>>
    /\ Len(http_log) >= 3
    /\ http_log[Len(http_log)].resp = "ok"
    /\ http_log[Len(http_log) - 1].next = http_log[Len(http_log)].next
    /\ http_log[Len(http_log) - 2].next = http_log[Len(http_log)].next

\* ---------------------------------------------------------------- C16
PermanentOutcomes == {"404", "badjson", "noresults", "nocursor"}

\* C16 (as stated): a permanent error (HTTP 4xx other than 429, a malformed
\* body, a non-terminal page without cursor) is not retried and the call
\* ends with an error, not with a result list.
C16_PermanentSurfaces ==
    \A i \in DOMAIN http_log :
        http_log[i].resp \in PermanentOutcomes =>
            /\ i = Len(http_log)
            /\ kc.pc = "done"
            /\ result.kind = "raise"

\* ---------------------------------------------------------------- C17
\* C17 (as stated): a request answered with HTTP 429 makes the client raise
\* KodikRateLimitError or try the call again.
C17_RateLimitedOn429 ==
    \A i \in DOMAIN http_log :
        http_log[i].resp = "429" =>
            \/ i < Len(http_log)
            \/ kc.pc = "retry_sleep"
            \/ result = Raises("KodikRateLimitError")

\* ---------------------------------------------------------------- C18
\* responses that hand a page to the loop of fetch_full_list
PageOutcomes == {"ok", "nocursor", "noresults"}

\* the batches of the answered page requests of `log`, concatenated
RECURSIVE Batches(_)
Batches(log) ==
    IF log = <<>> THEN <<>>
    ELSE LET r == log[Len(log)]
             batch == IF r.resp \in PageOutcomes
                      THEN IF r.via = "parser"
                           THEN Feed[PageOf(r.next)]
                           ELSE Results(Body(r.resp, PageOf(r.next)))
                      ELSE <<>>
         IN  Batches(SubSeq(log, 1, Len(log) - 1)) \o batch

\* the cursor a page came back with
CursorOf(r) ==
    IF r.via = "parser"
    THEN IF PageOf(r.next) < FeedPages THEN Some(PageOf(r.next) + 1) ELSE None
    ELSE NextFrom(Body(r.resp, PageOf(r.next)).next_page)

\* pages are requested in cursor order, starting without a cursor; a further
\* page is requested exactly when the last one came back with a cursor and
\* fewer than `limit` pages were fetched; the list returned is the
\* concatenation of the fetched pages; at most `limit` pages are requested
Paging(limited) ==
    (kc.op = "full") =>
        /\ http_log # <<>> => http_log[1].next = None
        /\ \A i \in DOMAIN http_log : i > 1 =>
              \/ /\ http_log[i - 1].resp \in TransientOutcomes
                 /\ http_log[i].next = http_log[i - 1].next
              \/ /\ http_log[i - 1].resp \in PageOutcomes
                 /\ http_log[i].next = CursorOf(http_log[i - 1])
                 /\ http_log[i].next # None
                 /\ limited => PageOf(http_log[i - 1].next) < kc.max_pages[1]
        /\ limited =>
              \A i \in DOMAIN http_log :
                  PageOf(http_log[i].next) <= kc.max_pages[1]
        /\ result.kind = "return" =>
              /\ result.value = Batches(http_log)
              /\ \/ CursorOf(http_log[Len(http_log)]) = None
                 \/ limited /\ kc.page_count = kc.max_pages[1]
        /\ (kc.pc = "acquire" /\ kc.page_count > 0) =>
              /\ kc.next_page # None
              /\ limited => kc.page_count < kc.max_pages[1]

IsoInstant(str) ==
    LET frac == IF str[9] = "." THEN DigitVal(str[10]) ELSE 0
        o == IF str[9] = "." THEN 12 ELSE 10
    IN  ((DigitVal(str[1]) * 10 + DigitVal(str[2]))
            - (DigitVal(str[o]) * 10 + DigitVal(str[o + 1]))) * 10 + frac

\* the item was updated before the instant `since` denotes
Older(item, since) == StampInstant(item.updated_at) < IsoInstant(since)

\* C19 (as stated): fetch_delta requests no page after the first page that
\* contains an item older than updated_since.
C19_DeltaShortCircuit ==
    (kc.op = "delta") =>
        \A i, j \in DOMAIN http_log :
            (i < j /\ http_log[i].resp = "ok")
               => \A item \in Range(Feed[PageOf(http_log[i].next)]) :
                     ~Older(item, kc.updated_since)

\* ---------------------------------------------------------------- C20
\* every page of the feed, in feed order
RECURSIVE FeedItems(_)
FeedItems(pages) ==
    IF pages = 0 THEN <<>> ELSE FeedItems(pages - 1) \o Feed[pages]

\* C20 (as stated): when every page of the feed was fetched, fetch_delta
\* returns exactly the items of the feed that are not older than
\* updated_since, in feed order.
C20_DeltaExact ==
    (/\ kc.op = "delta"
     /\ result.kind = "return"
     /\ kc.page_count = FeedPages
     /\ \A i \in DOMAIN http_log : http_log[i].resp = "ok")
        => result.value
              = SelectSeq(FeedItems(FeedPages),
                          LAMBDA item : ~Older(item, kc.updated_since))

\* the same for an updated_since in UTC without a fraction of a second,
\* whose isoformat() differs from the catalog's format only in the suffix
C20_DeltaExactWholeUtc ==
    (/\ kc.op = "delta"
     /\ result.kind = "return"
     /\ kc.page_count = FeedPages
     /\ \A i \in DOMAIN http_log : http_log[i].resp = "ok"
     /\ \E dt \in Datetimes : /\ dt.fraction = 0 /\ dt.utcoffset = 0
                              /\ kc.updated_since = IsoFormat(dt))
        => result.value
              = SelectSeq(FeedItems(FeedPages),
                          LAMBDA item : ~Older(item, kc.updated_since))

\* ================================================================ IngestService
\* everything outside the ingest service
outsideIngest == <<uploadVars, kodikVars, syncVars, downloadVars, singletonVars,
                   batcherVars, lockVars>>

\* `raw_id` of a raw item that failed to normalize
ExtractId(raw) == IF raw.type = "dict" THEN raw.id ELSE ""

\* batches: up to MaxBatch raw items
RawBatches == UNION {[1..n -> RawItems] : n \in 1..MaxBatch}

\* ingest_items(raw_items): the normalization loop, then, when a bundle was
\* built, `async with self._session_factory() as session` and
\* `async with session.begin()` up to the first statement
ingest_items(raw_items) ==
    LET bad == SelectSeq(raw_items, LAMBDA raw : ~Normalizable(raw))
        st == [NoStats EXCEPT !.total_processed = Len(raw_items),
                              !.failed = Len(bad),
                              !.errors = [k \in 1..Len(bad) |-> ExtractId(bad[k])]]
        bundles == Bundles(raw_items)
    IN  /\ ig.pc = "idle"
        /\ ingest_calls < MaxIngests
        /\ ingest_calls' = ingest_calls + 1
        /\ ingest_stats' = st
        /\ IF bundles = <<>>
           THEN /\ ig' = [NoIngest EXCEPT !.raw_items = raw_items,
                                          !.returned = TRUE, !.before = db]
                /\ UNCHANGED sess
           ELSE /\ ig' = [NoIngest EXCEPT !.pc = "upsert_translation",
                                          !.raw_items = raw_items,
                                          !.bundles = bundles, !.i = 1,
                                          !.before = db]
                /\ sess' = [status |-> "active", rows |-> db]
        /\ UNCHANGED <<db, outsideIngest>>

\* the loop of _persist_bundles moves on: the next bundle, or the end of
\* `async with session.begin()`
NextBundle(ok) ==
    [ig EXCEPT !.persisted = Append(@, ok),
               !.i = @ + 1,
               !.pc = IF ig.i < Len(ig.bundles)
                      THEN "upsert_translation" ELSE "commit"]

\* a statement of the bundle ended: with an error the transaction is
\* left aborted and `except Exception` of _persist_bundles records the
\* bundle as failed; after the last statement the bundle is counted as
\* successful; else the next statement follows
Executed(outcome, next_pc) ==
    IF outcome.error # ""
    THEN /\ sess' = [sess EXCEPT !.status = "aborted"]
         /\ ig' = NextBundle(FALSE)
         /\ ingest_stats' =
               [ingest_stats EXCEPT !.failed = @ + 1,
                                    !.errors = Append(@, ig.bundles[ig.i].anime.id)]
    ELSE /\ sess' = [sess EXCEPT !.rows = outcome.rows]
         /\ IF next_pc = "counted"
            THEN /\ ig' = NextBundle(TRUE)
                 /\ ingest_stats' = [ingest_stats EXCEPT !.successful = @ + 1]
            ELSE /\ ig' = [ig EXCEPT !.pc = next_pc]
                 /\ UNCHANGED ingest_stats

\* await repo.upsert_translation(bundle.translation)
ExecTranslation ==
    /\ ig.pc = "upsert_translation"
    /\ Executed(upsert_translation(sess, ig.bundles[ig.i].translation),
                "upsert_anime")
    /\ UNCHANGED <<db, ingest_calls, outsideIngest>>

\* await repo.upsert_anime(bundle.anime)
ExecAnime ==
    /\ ig.pc = "upsert_anime"
    /\ Executed(upsert_anime(sess, ig.bundles[ig.i].anime, ingest_calls),
                "upsert_anime_translation")
    /\ UNCHANGED <<db, ingest_calls, outsideIngest>>

\* await repo.upsert_anime_translation(bundle.anime_translation)
ExecAnimeTranslation ==
    /\ ig.pc = "upsert_anime_translation"
    /\ Executed(upsert_anime_translation(sess,
                    ig.bundles[ig.i].anime_translation, ingest_calls),
                "upsert_episodes")
    /\ UNCHANGED <<db, ingest_calls, outsideIngest>>

\* `if bundle.episodes: await repo.upsert_episodes(episodes_data)`, then
\* stats.successful += 1
ExecEpisodes ==
    /\ ig.pc = "upsert_episodes"
    /\ Executed(upsert_episodes(sess, ig.bundles[ig.i].episodes, ingest_calls),
                "counted")
    /\ UNCHANGED <<db, ingest_calls, outsideIngest>>

\* the end of `async with session.begin()`: COMMIT.  The database ends an
\* aborted transaction by rolling it back and reports no error.
SessionCommit ==
    /\ ig.pc = "commit"
    /\ db' = IF sess.status = "active" THEN sess.rows ELSE db
    /\ sess' = NoSession
    /\ ig' = [ig EXCEPT !.pc = "idle", !.returned = TRUE]
    /\ UNCHANGED <<ingest_stats, ingest_calls, outsideIngest>>

InitIngest ==
    /\ UploadIdle
    /\ LimiterInit(kodik_rps_limit * TokenScale, None)
    /\ ClientInit(FALSE)
    /\ ServiceIdle

NextIngest ==
    \/ \E raw_items \in RawBatches : ingest_items(raw_items)
    \/ ExecTranslation
    \/ ExecAnime
    \/ ExecAnimeTranslation
    \/ ExecEpisodes
    \/ SessionCommit

SpecIngest == InitIngest /\ [][NextIngest]_vars

\* ---------------------------------------------------------------- C21
\* no two rows of a table share the conflict key of the table
UniqueKeys(rows) ==
    /\ \A r, q \in rows.anime : AnimeKey(r) = AnimeKey(q) => r = q
    /\ \A r, q \in rows.translation :
          TranslationKey(r) = TranslationKey(q) => r = q
    /\ \A r, q \in rows.anime_translation : LinkKey(r) = LinkKey(q) => r = q
    /\ \A r, q \in rows.episode : EpisodeKey(r) = EpisodeKey(q) => r = q

\* the statement of the step returned without raising
StatementOk ==
    \/ ig'.persisted = ig.persisted
    \/ ig'.persisted = Append(ig.persisted, TRUE)

\* the rows of a bundle, by table
RowsOfAnime(rows, b) == {r \in rows.anime : r.id = b.anime.id}
RowsOfTranslation(rows, b) ==
    {r \in rows.translation : r.id = b.translation.id}
RowsOfLink(rows, b) ==
    {r \in rows.anime_translation :
        LinkKey(r) = <<b.anime.id, b.translation.id>>}
RowsOfEpisodes(rows, b) ==
    {r \in rows.episode :
        r.anime_id = b.anime.id /\ r.translation_id = b.translation.id}

\* the tables without the columns updated_at
WithoutUpdatedAt(rows) ==
    [anime |-> {[id |-> r.id, rev |-> r.rev, created_at |-> r.created_at] :
                   r \in rows.anime},
     translation |-> rows.translation,
     anime_translation |->
        {[anime_id |-> r.anime_id, translation_id |-> r.translation_id,
          episodes_available |-> r.episodes_available] :
            r \in rows.anime_translation},
     episode |-> {[id |-> r.id, season |-> r.season] : r \in rows.episode}]

\* bundles with a translation and with one episode per number
WellFormed(b) ==
    /\ b.translation.id # 0
    /\ \A i, j \in DOMAIN b.episodes :
          b.episodes[i].number = b.episodes[j].number => i = j

\* the bundles a check is about: all, or the well-formed ones only
Concerns(well_formed_only, b) == well_formed_only => WellFormed(b)

\* an upsert that returned leaves exactly one row with the key of its
\* data, carrying the mutable columns of the data
LastWriteWins(well_formed_only) ==
    LET b == ig.bundles[ig.i] IN
    /\ (ExecTranslation /\ StatementOk /\ Concerns(well_formed_only, b)) =>
          \E r \in sess'.rows.translation :
              /\ RowsOfTranslation(sess'.rows, b) = {r}
              /\ r.rev = b.translation.rev
    /\ (ExecAnime /\ StatementOk /\ Concerns(well_formed_only, b)) =>
          \E r \in sess'.rows.anime :
              /\ RowsOfAnime(sess'.rows, b) = {r}
              /\ r.rev = b.anime.rev
              /\ r.updated_at = ingest_calls
    /\ (ExecAnimeTranslation /\ StatementOk /\ Concerns(well_formed_only, b)) =>
          \E r \in sess'.rows.anime_translation :
              /\ RowsOfLink(sess'.rows, b) = {r}
              /\ r.episodes_available = b.anime_translation.episodes_available
    /\ (ExecEpisodes /\ StatementOk /\ Concerns(well_formed_only, b)) =>
          \A k \in DOMAIN b.episodes :
              \E r \in sess'.rows.episode :
                  /\ {q \in sess'.rows.episode :
                         EpisodeKey(q) = EpisodeKey(b.episodes[k])} = {r}
                  /\ r.season = b.episodes[k].season

\* a call of ingest_items for one item leaves one row in anime, translation
\* and anime_translation and N rows in episode, N the number of episodes of
\* the bundle; and when the rows of the bundle were there before the call,
\* the call changes nothing but updated_at
OneRowPerKey(well_formed_only) ==
    /\ UniqueKeys(db)
    /\ UniqueKeys(sess.rows)
    /\ \A c \in {NormalizedAnimeBundle(raw) :
                    raw \in {x \in RawItems : Normalizable(x)}} :
          (/\ ig.returned
           /\ ig.bundles = <<c>>
           /\ Len(ig.raw_items) = 1
           /\ Concerns(well_formed_only, c)) =>
              /\ Cardinality(RowsOfAnime(db, c)) = 1
              /\ Cardinality(RowsOfTranslation(db, c)) = 1
              /\ Cardinality(RowsOfLink(db, c)) = 1
              /\ Cardinality(RowsOfEpisodes(db, c)) = Len(c.episodes)
              /\ (/\ RowsOfAnime(ig.before, c) # {}
                  /\ RowsOfAnime(ig.before, c)
                        = {r \in ig.before.anime : r.rev = c.anime.rev}
                  /\ RowsOfTranslation(ig.before, c) = {c.translation}
                  /\ Cardinality(RowsOfEpisodes(ig.before, c))
                        = Len(c.episodes))
                 => WithoutUpdatedAt(db) = WithoutUpdatedAt(ig.before)

\* C21 (as stated): after any sequence of upserts every table holds exactly
\* one row per conflict key, carrying the mutable columns of the last
\* upsert for that key; ingesting a bundle leaves one row in anime,
\* translation and anime_translation and N rows in episode, and ingesting
\* it again changes nothing but updated_at.
C21_UpsertIdempotent ==
    /\ []OneRowPerKey(FALSE)
    /\ [][LastWriteWins(FALSE)]_vars

\* the same for bundles that have a translation and one episode per number
C21_UpsertIdempotentWellFormed ==
    /\ []OneRowPerKey(TRUE)
    /\ [][LastWriteWins(TRUE)]_vars

\* ---------------------------------------------------------------- C22
\* every row of the bundle is there
HasRows(rows, b) ==
    /\ RowsOfAnime(rows, b) # {}
    /\ RowsOfTranslation(rows, b) # {}
    /\ RowsOfLink(rows, b) # {}
    /\ \A k \in DOMAIN b.episodes :
          \E r \in rows.episode : EpisodeKey(r) = EpisodeKey(b.episodes[k])

\* the bundles of the batch that _persist_bundles counted as successful
PersistedBundles == {i \in DOMAIN ig.persisted : ig.persisted[i]}

\* C22 (as stated): when ingest_items has returned, every bundle that was
\* persisted without error is in the database, whatever happened to the
\* other bundles of the batch; stats.successful is the number of bundles
\* of the batch that are in the database; and what a failed bundle wrote
\* is not: the rows of an anime that only failed bundles name are the rows
\* from before the call.
C22_BundleFailureIsolated ==
    (ig.returned /\ ig.bundles # <<>>) =>
        /\ \A i \in PersistedBundles : HasRows(db, ig.bundles[i])
        /\ ingest_stats.successful
              = Cardinality({i \in PersistedBundles : HasRows(db, ig.bundles[i])})
        /\ ingest_stats.failed
              = Len(ig.raw_items) - Cardinality(PersistedBundles)
        /\ \A i \in DOMAIN ig.bundles :
              (\A j \in PersistedBundles :
                  ig.bundles[j].anime.id # ig.bundles[i].anime.id)
                 => RowsOfAnime(db, ig.bundles[i])
                       = RowsOfAnime(ig.before, ig.bundles[i])

\* ------------------------------------------- Downloader and retry_async
outsideDownload == <<tasks, queueVars, wk, shutdown_event, active_uploads,
                     chatVars, files, media, chat_log, send_calls, sh,
                     last_poll_at, kodikVars, ingestVars, syncVars,
                     singletonVars, batcherVars, lockVars>>

\* Downloader.MIN_FILE_SIZE = 1024 * 100
MIN_FILE_SIZE == 102400

\* UploadWorker(max_retries=3)
upload_max_retries == 3

\* what the muxer can leave at out_path: nothing, or a file of some size
FileSizes == {0, 50, MIN_FILE_SIZE - 1, MIN_FILE_SIZE}
FileStates == {None} \cup {Some(n) : n \in FileSizes}

\* DownloadError(message, error_type) and the other exceptions
DownloadError(error_type) == [kind |-> "DownloadError", error_type |-> error_type]
OtherError(name) == [kind |-> name, error_type |-> ""]

\* the public and private methods of class Downloader
DownloaderAttrs ==
    {"MIN_FILE_SIZE", "FFMPEG_ARGS", "__init__", "_ensure_temp_dir",
     "_check_ffmpeg", "download", "_get_m3u8", "_run_ffmpeg",
     "_validate_and_get_result", "_compute_checksum", "cleanup_file",
     "cleanup_all"}

\* Downloader.cleanup_file: the file is removed unless os.remove raises
\* OSError, which is logged and swallowed
cleanup_file_keep(file, remove_ok) == file

cleanup_file(file, remove_ok) ==
    IF file = None THEN None
    ELSE IF remove_ok THEN None
    ELSE file

\* the checks of _validate_and_get_result before the checksum, in order
Validate_size_first(file) ==
    IF file = None THEN "FILE_NOT_CREATED"
    ELSE IF file[1] < MIN_FILE_SIZE THEN "FILE_TOO_SMALL"
    ELSE IF file[1] = 0 THEN "FILE_EMPTY"
    ELSE "ok"

Validate(file) ==
    IF file = None THEN "FILE_NOT_CREATED"
    ELSE IF file[1] = 0 THEN "FILE_EMPTY"
    ELSE IF file[1] < MIN_FILE_SIZE THEN "FILE_TOO_SMALL"
    ELSE "ok"

\* retry_async: func raised exc in attempt r.attempt. An exception of the
\* listed classes is followed by a sleep of current_delay if attempts are
\* left and raised after the last attempt; any other exception propagates
AttemptRaised(r, exc) ==
    IF exc.kind \in r.exceptions /\ r.attempt < r.max_retries
    THEN [r EXCEPT !.pc = "sleep", !.log = Append(@, exc),
                   !.sleeps = Append(@, r.current_delay)]
    ELSE [r EXCEPT !.pc = "raised", !.log = Append(@, exc),
                   !.outcome = Some(exc)]

\* retry_async: func returned
AttemptReturned(r, value) ==
    [r EXCEPT !.pc = "returned", !.log = Append(@, [kind |-> "ok", error_type |-> ""]),
              !.outcome = Some(value)]

\* retry_async(func, max_retries=..., delay=..., exceptions=...) up to the
\* first call of func
CallRetry(caller, func, max_retries, delay, exceptions) ==
    [NoRetry EXCEPT !.pc = "attempt", !.caller = caller, !.func = func,
                    !.max_retries = max_retries, !.backoff = 2,
                    !.max_delay = 30, !.exceptions = exceptions,
                    !.attempt = 1, !.current_delay = delay]

\* Downloader.download up to its first await, of get_episode_m3u8
StartDownload ==
    /\ dl' = [NoDownload EXCEPT !.pc = "get_m3u8"]
    /\ proc' = NoProcess

\* no call of retry_async is in progress
RetryOver == rt.pc \in {"idle", "returned", "raised"}

\* retry_async(downloader.download, request, max_retries=3, delay=2.0,
\* exceptions=(DownloadError,)): the arguments of _process_episode with the
\* method the downloader has
retry_download ==
    /\ RetryOver
    /\ rt' = CallRetry("download", "download", upload_max_retries, 2,
                       {"DownloadError"})
    /\ StartDownload
    /\ UNCHANGED <<out_file, stats, outsideDownload>>

\* UploadWorker._process_episode: an episode without external ids is
\* counted failed; for any other retry_async calls _download_episode, which
\* looks up self._downloader.download_episode. Downloader has no such
\* attribute: AttributeError is not a DownloadError, retry_async lets it
\* through and `except Exception` counts the episode failed
process_episode(has_external_ids) ==
    /\ RetryOver
    /\ stats.processed_count + stats.failed_count < MaxTasks
    /\ "download_episode" \notin DownloaderAttrs
    /\ rt' = IF has_external_ids
             THEN AttemptRaised(CallRetry("_process_episode",
                                          "_download_episode",
                                          upload_max_retries, 2,
                                          {"DownloadError"}),
                                OtherError("AttributeError"))
             ELSE rt
    /\ stats' = [stats EXCEPT !.failed_count = @ + 1]
    /\ UNCHANGED <<dl, proc, out_file, outsideDownload>>

\* download raises exc: `except DownloadError` / `except Exception` clean
\* the output path up first; retry_async sees the exception
DownloadFails(d, exc, file, remove_ok) ==
    /\ out_file' = cleanup_file(file, remove_ok)
    /\ dl' = [d EXCEPT !.pc = "done", !.outcome = Some(exc),
                       !.remove_failed = (file # None /\ ~remove_ok)]
    /\ rt' = AttemptRaised(rt, exc)

\* get_episode_m3u8 returns the playlist URL: the muxer is spawned
GetM3u8Returns ==
    /\ dl.pc = "get_m3u8"
    /\ dl' = [dl EXCEPT !.pc = "spawn"]
    /\ UNCHANGED <<proc, out_file, rt, stats, outsideDownload>>

\* get_episode_m3u8 raises: a KodikError becomes KODIK_ERROR, any other
\* exception FFMPEG_FAILED
GetM3u8Raises(kind, remove_ok) ==
    /\ dl.pc = "get_m3u8"
    /\ DownloadFails(dl, DownloadError(IF kind = "KodikError"
                                       THEN "KODIK_ERROR"
                                       ELSE "FFMPEG_FAILED"),
                     out_file, remove_ok)
    /\ UNCHANGED <<proc, stats, outsideDownload>>

\* create_subprocess_exec returns the process
SpawnReturns ==
    /\ dl.pc = "spawn"
    /\ dl' = [dl EXCEPT !.pc = "communicate"]
    /\ proc' = [NoProcess EXCEPT !.state = "running"]
    /\ UNCHANGED <<out_file, rt, stats, outsideDownload>>

\* create_subprocess_exec raises OSError
SpawnRaises(remove_ok) ==
    /\ dl.pc = "spawn"
    /\ DownloadFails(dl, DownloadError("FFMPEG_FAILED"), out_file, remove_ok)
    /\ UNCHANGED <<proc, stats, outsideDownload>>

\* proc.communicate() returns within the timeout: the muxer exited with
\* returncode and left `file` at out_path. A non-zero code fails the
\* download, a zero code goes on to the checks of the file, up to the await
\* of the checksum
CommunicateReturns(returncode, file, remove_ok) ==
    /\ dl.pc = "communicate"
    /\ proc' = [proc EXCEPT !.state = "exited",
                            !.returncode = Some(returncode),
                            !.awaited = TRUE]
    /\ LET seen == [dl EXCEPT !.exists = (file # None),
                              !.size = IF file = None THEN 0 ELSE file[1]]
       IN  IF returncode # 0
           THEN DownloadFails(dl, DownloadError("FFMPEG_FAILED"), file,
                              remove_ok)
           ELSE IF Validate(file) # "ok"
           THEN DownloadFails(seen, DownloadError(Validate(file)), file,
                              remove_ok)
           ELSE /\ dl' = [seen EXCEPT !.pc = "checksum"]
                /\ out_file' = file
                /\ UNCHANGED rt
    /\ UNCHANGED <<stats, outsideDownload>>

\* wait_for times out: proc.kill(), then the await of proc.communicate()
CommunicateTimesOut(file) ==
    /\ dl.pc = "communicate"
    /\ proc' = [proc EXCEPT !.state = "killed"]
    /\ out_file' = file
    /\ dl' = [dl EXCEPT !.pc = "kill_wait", !.timed_out = TRUE]
    /\ UNCHANGED <<rt, stats, outsideDownload>>

\* the killed muxer has ended: FFMPEG_TIMEOUT
KilledAwaited(remove_ok) ==
    /\ dl.pc = "kill_wait"
    /\ proc' = [proc EXCEPT !.awaited = TRUE]
    /\ DownloadFails(dl, DownloadError("FFMPEG_TIMEOUT"), out_file, remove_ok)
    /\ UNCHANGED <<stats, outsideDownload>>

\* the checksum is computed: download returns its DownloadResult
ChecksumReturns ==
    /\ dl.pc = "checksum"
    /\ LET res == [path |-> "out_path", size_bytes |-> dl.size,
                   checksum |-> "md5"]
       IN  /\ dl' = [dl EXCEPT !.pc = "done", !.outcome = Some(res)]
           /\ rt' = AttemptReturned(rt, res)
    /\ UNCHANGED <<proc, out_file, stats, outsideDownload>>

\* reading the file for the checksum raises OSError: FFMPEG_FAILED
ChecksumRaises(remove_ok) ==
    /\ dl.pc = "checksum"
    /\ DownloadFails(dl, DownloadError("FFMPEG_FAILED"), out_file, remove_ok)
    /\ UNCHANGED <<proc, stats, outsideDownload>>

\* asyncio.sleep(current_delay) is over: the delay grows and func is called
\* for the next attempt
SleepEnds ==
    /\ rt.pc = "sleep"
    /\ rt' = [rt EXCEPT !.pc = "attempt", !.attempt = @ + 1,
                        !.current_delay =
                            IF @ * rt.backoff < rt.max_delay
                            THEN @ * rt.backoff ELSE rt.max_delay]
    /\ StartDownload
    /\ UNCHANGED <<out_file, stats, outsideDownload>>

InitDownload ==
    /\ Init

NextDownload ==
    \/ retry_download
    \/ \E has_external_ids \in BOOLEAN : process_episode(has_external_ids)
    \/ GetM3u8Returns
    \/ \E kind \in {"KodikError", "Exception"}, remove_ok \in BOOLEAN :
          GetM3u8Raises(kind, remove_ok)
    \/ SpawnReturns
    \/ \E remove_ok \in BOOLEAN : SpawnRaises(remove_ok)
    \/ \E returncode \in {0, 1}, file \in FileStates, remove_ok \in BOOLEAN :
          CommunicateReturns(returncode, file, remove_ok)
    \/ \E file \in FileStates : CommunicateTimesOut(file)
    \/ \E remove_ok \in BOOLEAN : KilledAwaited(remove_ok)
    \/ ChecksumReturns
    \/ \E remove_ok \in BOOLEAN : ChecksumRaises(remove_ok)
    \/ SleepEnds

SpecDownload == InitDownload /\ [][NextDownload]_vars


\* ------------------------------------------- get_upload_client / _queue
outsideSingleton == <<uploadVars, kodikVars, ingestVars, syncVars,
                      downloadVars, batcherVars, lockVars>>

\* what `return _client` hands to the caller: the client and whether it
\* had been started by then
ClientValue(cs, id) == [kind |-> "client", id |-> id, started |-> cs[id].started]

\* what `return _queue` hands to the caller
QueueValue(id) == [kind |-> "queue", id |-> id, started |-> TRUE]

\* get_upload_queue past its await of get_upload_client:
\* _queue = OrderedUploadQueue(client); return _queue
BuildQueue(i, client_id) ==
    /\ upload_queues' = Append(upload_queues, client_id)
    /\ _queue' = Some(Len(upload_queues) + 1)
    /\ sg' = [sg EXCEPT ![i] = [@ EXCEPT !.pc = "done",
                 !.got = Some(QueueValue(Len(upload_queues) + 1))]]

\* get_upload_client() is called, by itself or from get_upload_queue: with
\* _client set it returns it at once; with _client None it stores a new
\* client in the global and suspends in `await _client.start()`
EnterGetClient(i, op) ==
    IF _client = None
    THEN /\ clients' = Append(clients, [started |-> FALSE])
         /\ _client' = Some(Len(clients) + 1)
         /\ sg' = [sg EXCEPT ![i] = [NoAccess EXCEPT !.pc = "start", !.op = op]]
         /\ UNCHANGED <<_queue, upload_queues>>
    ELSE IF op = "get_upload_client"
    THEN /\ sg' = [sg EXCEPT ![i] = [NoAccess EXCEPT !.pc = "done", !.op = op,
                      !.got = Some(ClientValue(clients, _client[1]))]]
         /\ UNCHANGED <<_client, _queue, clients, upload_queues>>
    ELSE /\ BuildQueue(i, _client[1])
         /\ UNCHANGED <<_client, clients>>

\* a coroutine calls get_upload_client()
get_upload_client(i) ==
    /\ sg[i].pc \in {"idle", "done"}
    /\ EnterGetClient(i, "get_upload_client")
    /\ UNCHANGED outsideSingleton

\* a coroutine calls get_upload_queue()
get_upload_queue(i) ==
    /\ sg[i].pc \in {"idle", "done"}
    /\ IF _queue # None
       THEN /\ sg' = [sg EXCEPT ![i] = [NoAccess EXCEPT !.pc = "done",
                         !.op = "get_upload_queue",
                         !.got = Some(QueueValue(_queue[1]))]]
            /\ UNCHANGED <<_client, _queue, clients, upload_queues>>
       ELSE EnterGetClient(i, "get_upload_queue")
    /\ UNCHANGED outsideSingleton

\* _client.start() returns: the client is started, get_me is awaited
StartReturns(i) ==
    /\ sg[i].pc = "start"
    /\ clients' = [clients EXCEPT ![_client[1]].started = TRUE]
    /\ sg' = [sg EXCEPT ![i].pc = "get_me"]
    /\ UNCHANGED <<_client, _queue, upload_queues, outsideSingleton>>

\* _client.start() or _client.get_me() raises: the exception reaches the
\* caller and the global keeps the client
StartRaises(i) ==
    /\ sg[i].pc \in {"start", "get_me"}
    /\ sg' = [sg EXCEPT ![i] = [@ EXCEPT !.pc = "done", !.raised = TRUE]]
    /\ UNCHANGED <<_client, _queue, clients, upload_queues, outsideSingleton>>

\* _client.get_me() returns: get_upload_client returns _client, and
\* get_upload_queue goes on to build its queue
GetMeReturns(i) ==
    /\ sg[i].pc = "get_me"
    /\ IF sg[i].op = "get_upload_client"
       THEN /\ sg' = [sg EXCEPT ![i] = [@ EXCEPT !.pc = "done",
                         !.got = Some(ClientValue(clients, _client[1]))]]
            /\ UNCHANGED <<_queue, upload_queues>>
       ELSE BuildQueue(i, _client[1])
    /\ UNCHANGED <<_client, clients, outsideSingleton>>

InitSingleton ==
    /\ Init

NextSingleton ==
    \/ \E i \in 1..NCallers : get_upload_client(i)
    \/ \E i \in 1..NCallers : get_upload_queue(i)
    \/ \E i \in 1..NCallers : StartReturns(i)
    \/ \E i \in 1..NCallers : StartRaises(i)
    \/ \E i \in 1..NCallers : GetMeReturns(i)

SpecSingleton == InitSingleton /\ [][NextSingleton]_vars


\* ------------------------------------------- run_with_limited_concurrency
outsideSync == <<uploadVars, kodikVars, ingestVars, downloadVars,
                 singletonVars, batcherVars, lockVars>>

BatchSizes == {1, 2}
Concurrencies == {1, 2}

\* chunked: `if size <= 0: raise ValueError`
ChunkSizeInvalid(size) == size <= 0

\* chunked: `if len(batch) >= size`, the batch is complete
ChunkFull_late(batch, size) == Len(batch) > size

ChunkFull(batch, size) == Len(batch) >= size

\* the loop of chunked over what is left of the iterable: each item is
\* appended to batch, a complete batch is appended to the result and batch
\* starts again; what is left in batch at the end is the last chunk
RECURSIVE ChunkLoop(_, _, _, _)
ChunkLoop(rest, size, batch, chunks) ==
    IF rest = <<>>
    THEN IF batch # <<>> THEN Append(chunks, batch) ELSE chunks
    ELSE LET grown == Append(batch, Head(rest))
         IN  IF ChunkFull(grown, size)
             THEN ChunkLoop(Tail(rest), size, <<>>, Append(chunks, grown))
             ELSE ChunkLoop(Tail(rest), size, grown, chunks)

\* chunked(iterable, size) for a size that is valid
chunked(items, size) == ChunkLoop(items, size, <<>>, <<>>)

\* the items 1..n, as fetch_delta returns them
Items(n) == [k \in 1..n |-> k]

\* what worker(batch) returns: a value that names its batch
WorkerResult(batch) == [ok |-> TRUE, value |-> batch]

\* TaskResult(error=exc, index=index); enumerate() counts from 0
TaskResult(position) == [ok |-> FALSE, index |-> position - 1]

\* run_with_limited_concurrency up to its await of gather: the ValueError,
\* the semaphore, one task per batch, the empty list for no batches
CallRun(caller, batches, concurrency, on_error, return_exceptions) ==
    LET args == [NoRun EXCEPT !.caller = caller, !.batches = batches,
                              !.concurrency = concurrency,
                              !.on_error = on_error,
                              !.return_exceptions = return_exceptions]
    IN  IF concurrency <= 0 THEN [args EXCEPT !.outcome = "ValueError"]
        ELSE IF batches = <<>>
        THEN [args EXCEPT !.sem = concurrency, !.outcome = "list"]
        ELSE [args EXCEPT
                !.sem = concurrency,
                !.tasks = [i \in 1..Len(batches) |->
                              [pc |-> "created", result |-> None]],
                !.invoked = [i \in 1..Len(batches) |-> 0],
                !.outcome = "pending"]

\* every task of the call has ended
AllEnded(r) == \A i \in 1..Len(r.tasks) : r.tasks[i].pc \in {"done", "failed"}

\* the list gather hands back: the results of the tasks in task order
GatherResults_as_completed(r) ==
    [k \in 1..Len(r.completed) |-> r.tasks[r.completed[k]].result[1]]

GatherResults(r) == [i \in 1..Len(r.tasks) |-> r.tasks[i].result[1]]

\* on_error of DeltaSyncWorker.sync
on_error_uncounted(s) == s

on_error(s) == [s EXCEPT !.failed_batches = @ + 1]

\* the task enters worker(batch) holding the semaphore
EnterWorker_unbounded(r, i) ==
    [r EXCEPT !.tasks[i].pc = "worker", !.invoked[i] = @ + 1]

EnterWorker(r, i) ==
    [r EXCEPT !.sem = @ - 1, !.tasks[i].pc = "worker", !.invoked[i] = @ + 1]

\* _run(batch, i) runs first: tasks start in the order they were created;
\* async with sem proceeds if the semaphore is free and waits in line if not
TaskStart(i) ==
    /\ i \in 1..Len(run.tasks)
    /\ run.tasks[i].pc = "created"
    /\ \A j \in 1..(i - 1) : run.tasks[j].pc # "created"
    /\ run' = IF run.sem > 0 /\ run.waiters = <<>>
              THEN EnterWorker(run, i)
              ELSE [run EXCEPT !.tasks[i].pc = "waiting",
                               !.waiters = Append(@, i)]
    /\ UNCHANGED <<dw, sync_shutdown, sync_stats, run_calls, outsideSync>>

\* a released semaphore wakes the first task in line
TaskWake(i) ==
    /\ i \in 1..Len(run.tasks)
    /\ run.tasks[i].pc = "waiting"
    /\ run.waiters # <<>> /\ Head(run.waiters) = i
    /\ run.sem > 0
    /\ run' = EnterWorker([run EXCEPT !.waiters = Tail(@)], i)
    /\ UNCHANGED <<dw, sync_shutdown, sync_stats, run_calls, outsideSync>>

\* worker(batch) returns: the task ends with its result, the semaphore is
\* released
WorkerReturns(i) ==
    /\ i \in 1..Len(run.tasks)
    /\ run.tasks[i].pc = "worker"
    /\ run' = [run EXCEPT !.sem = @ + 1,
                          !.tasks[i] = [pc |-> "done",
                                        result |-> Some(WorkerResult(run.batches[i]))],
                          !.completed = Append(@, i)]
    /\ UNCHANGED <<dw, sync_shutdown, sync_stats, run_calls, outsideSync>>

\* worker(batch) raises an Exception: on_error(exc, index), then a
\* TaskResult if return_exceptions and the exception if not
WorkerRaises(i) ==
    /\ i \in 1..Len(run.tasks)
    /\ run.tasks[i].pc = "worker"
    /\ run' = [run EXCEPT
                 !.sem = @ + 1,
                 !.errors = IF run.on_error THEN Append(@, i - 1) ELSE @,
                 !.tasks[i] = IF run.return_exceptions
                              THEN [pc |-> "done",
                                    result |-> Some(TaskResult(i))]
                              ELSE [pc |-> "failed", result |-> None],
                 !.completed = Append(@, i)]
    /\ sync_stats' = IF run.on_error /\ run.caller = "sync"
                     THEN on_error(sync_stats) ELSE sync_stats
    /\ UNCHANGED <<dw, sync_shutdown, run_calls, outsideSync>>

\* a call outside the worker, as the test makes it, with or without
\* on_error and return_exceptions
run_with_limited_concurrency(batches, concurrency, with_on_error, return_exceptions) ==
    /\ dw.pc = "new"
    /\ run.outcome # "pending"
    /\ AllEnded(run)
    /\ run_calls < MaxTicks
    /\ run_calls' = run_calls + 1
    /\ run' = CallRun("test", batches, concurrency, with_on_error,
                      return_exceptions)
    /\ UNCHANGED <<dw, sync_shutdown, sync_stats, outsideSync>>

\* gather ends for the caller outside the worker: with the first exception
\* of a task, or with the list once every task has ended
GatherEnds ==
    /\ run.caller = "test"
    /\ run.outcome = "pending"
    /\ \/ /\ \E i \in 1..Len(run.tasks) : run.tasks[i].pc = "failed"
          /\ run' = [run EXCEPT !.outcome = "raised"]
       \/ /\ \A i \in 1..Len(run.tasks) : run.tasks[i].pc = "done"
          /\ run' = [run EXCEPT !.outcome = "list",
                                !.returned = GatherResults(run)]
    /\ UNCHANGED <<dw, sync_shutdown, sync_stats, run_calls, outsideSync>>

InitRun ==
    /\ UploadIdle
    /\ LimiterInit(kodik_rps_limit * TokenScale, None)
    /\ ClientInit(FALSE)
    /\ ServiceIdle

NextRun ==
    \/ \E n \in 0..MaxFetched, size \in BatchSizes,
          concurrency \in {0} \cup Concurrencies,
          with_on_error \in BOOLEAN, return_exceptions \in BOOLEAN :
          run_with_limited_concurrency(chunked(Items(n), size), concurrency,
                                       with_on_error, return_exceptions)
    \/ \E i \in 1..MaxFetched : TaskStart(i)
    \/ \E i \in 1..MaxFetched : TaskWake(i)
    \/ \E i \in 1..MaxFetched : WorkerReturns(i)
    \/ \E i \in 1..MaxFetched : WorkerRaises(i)
    \/ GatherEnds

SpecRun == InitRun /\ [][NextRun]_vars

\* ------------------------------------------------------- DeltaSyncWorker
\* _run_loop evaluates its while condition: it ends if the event is set and
\* calls sync() if not, which runs up to its await of fetch_delta
LoopTop(w) ==
    IF sync_shutdown THEN [w EXCEPT !.pc = "done"]
    ELSE [w EXCEPT !.pc = "sync_fetch", !.ticks = @ + 1, !.raw_items = <<>>]

\* the tick is over, by return or by an exception the loop logs: the loop
\* goes on to wait for the event or the interval
TickEnds(w, how) == [w EXCEPT !.pc = "wait", !.last = how]

\* DeltaSyncWorker.start
start ==
    /\ dw.pc = "new"
    /\ run_calls = 0
    /\ dw' = LoopTop(dw)
    /\ UNCHANGED <<sync_shutdown, sync_stats, run, run_calls, outsideSync>>

\* DeltaSyncWorker.stop, from a signal or a caller
stop ==
    /\ dw.pc # "new"
    /\ ~sync_shutdown
    /\ sync_shutdown' = TRUE
    /\ UNCHANGED <<dw, sync_stats, run, run_calls, outsideSync>>

\* fetch_delta returns n items: they are counted, chunked and handed to
\* run_with_limited_concurrency; no items end the tick, and so does the
\* ValueError of chunked for a batch_size that is not positive
FetchDeltaReturns(n) ==
    /\ dw.pc = "sync_fetch"
    /\ sync_stats' = [sync_stats EXCEPT !.total_fetched = @ + n]
    /\ IF n = 0
       THEN /\ dw' = TickEnds(dw, "returned")
            /\ UNCHANGED <<run, run_calls>>
       ELSE IF ChunkSizeInvalid(dw.batch_size)
       THEN /\ dw' = TickEnds(dw, "raised")
            /\ UNCHANGED <<run, run_calls>>
       ELSE LET call == CallRun("sync", chunked(Items(n), dw.batch_size),
                                dw.concurrency, TRUE, TRUE)
            IN  /\ run' = call
                /\ run_calls' = run_calls + 1
                /\ dw' = IF call.outcome = "ValueError"
                         THEN TickEnds(dw, "raised")
                         ELSE [dw EXCEPT !.pc = "sync_run",
                                         !.raw_items = Items(n)]
    /\ UNCHANGED <<sync_shutdown, outsideSync>>

\* fetch_delta raises: sync logs and re-raises, the loop logs
FetchDeltaRaises ==
    /\ dw.pc = "sync_fetch"
    /\ dw' = TickEnds(dw, "raised")
    /\ UNCHANGED <<sync_shutdown, sync_stats, run, run_calls, outsideSync>>

\* gather(*tasks, return_exceptions=True) ends once every task has ended;
\* sync counts the items as imported and returns its stats
SyncGathered ==
    /\ dw.pc = "sync_run"
    /\ AllEnded(run)
    /\ run' = [run EXCEPT !.outcome = "list", !.returned = GatherResults(run)]
    /\ sync_stats' = [sync_stats EXCEPT
                         !.total_imported = @ + Len(dw.raw_items)]
    /\ dw' = TickEnds(dw, "returned")
    /\ UNCHANGED <<sync_shutdown, run_calls, outsideSync>>

\* wait_for(self._shutdown_event.wait(), timeout=self._sync_interval) times
\* out: the next tick
WaitTimeout ==
    /\ dw.pc = "wait"
    /\ ~sync_shutdown
    /\ dw.ticks < MaxTicks
    /\ dw' = LoopTop(dw)
    /\ UNCHANGED <<sync_shutdown, sync_stats, run, run_calls, outsideSync>>

\* the wait ends because the event is set: the loop ends
WaitShutdown ==
    /\ dw.pc = "wait"
    /\ sync_shutdown
    /\ dw' = LoopTop(dw)
    /\ UNCHANGED <<sync_shutdown, sync_stats, run, run_calls, outsideSync>>

InitSync ==
    /\ UploadIdle
    /\ LimiterInit(kodik_rps_limit * TokenScale, None)
    /\ ClientInit(FALSE)
    /\ IngestIdle
    /\ DownloadIdle
    /\ SingletonIdle
    /\ BatcherIdle
    /\ LocksIdle
    /\ \E batch_size \in {0} \cup BatchSizes, concurrency \in Concurrencies :
          SyncInit(batch_size, concurrency)

NextSync ==
    \/ start
    \/ stop
    \/ \E n \in 0..MaxFetched : FetchDeltaReturns(n)
    \/ FetchDeltaRaises
    \/ \E i \in 1..MaxFetched : TaskStart(i)
    \/ \E i \in 1..MaxFetched : TaskWake(i)
    \/ \E i \in 1..MaxFetched : WorkerReturns(i)
    \/ \E i \in 1..MaxFetched : WorkerRaises(i)
    \/ SyncGathered
    \/ WaitTimeout
    \/ WaitShutdown

SpecSync == InitSync /\ [][NextSync]_vars


\* ---------------------------------------------------------------- C30
\* C30: run_with_limited_concurrency never invokes the worker twice for a
\* batch, and when it returns a list every batch was invoked exactly once
\* and the list has one entry per batch, at the batch's index: the result
\* of the worker for that batch, or the TaskResult of its exception, in
\* whatever order the invocations completed.
C30_OneEntryPerBatchAtIndex ==
    /\ \A i \in 1..Len(run.invoked) : run.invoked[i] <= 1
    /\ run.outcome = "list" =>
          /\ Len(run.returned) = Len(run.batches)
          /\ \A i \in 1..Len(run.batches) :
                /\ run.invoked[i] = 1
                /\ run.returned[i] \in {WorkerResult(run.batches[i]),
                                        TaskResult(i)}

\* a list of three entries returned after the invocations completed in an
\* order that is not the order of the batches
C30_Witness_OutOfOrder ==
    /\ run.caller = "test"
    /\ run.outcome = "list"
    /\ Len(run.returned) = MaxFetched
    /\ run.completed[1] # 1
    /\ \E i \in 1..Len(run.returned) : ~run.returned[i].ok


\* ---------------------------------------------------------------- C23
\* batches of the call whose worker raised
RaisedBatches(r) ==
    {i \in 1..Len(r.tasks) : r.tasks[i].pc = "failed" \/
        (r.tasks[i].pc = "done" /\ ~r.tasks[i].result[1].ok)}

\* a step counts a batch in failed_batches exactly when its ingest raises
CountedOnce ==
    sync_stats'.failed_batches - sync_stats.failed_batches =
        IF run_calls' = run_calls
        THEN Cardinality(RaisedBatches(run')) - Cardinality(RaisedBatches(run))
        ELSE 0

\* the tick leaves run_with_limited_concurrency only by returning, after
\* every batch was run once and to its end
TickReturns ==
    (dw.pc = "sync_run" /\ dw'.pc # "sync_run") =>
        /\ dw'.pc = "wait" /\ dw'.last = "returned"
        /\ \A i \in 1..Len(run.batches) :
              run.invoked[i] = 1 /\ run.tasks[i].pc = "done"

\* the loop ends only when the shutdown event is set; a tick, whether it
\* returned or raised, leaves it waiting for the interval
LoopSurvives ==
    /\ dw'.pc = "done" /\ dw.pc # "done" => sync_shutdown
    /\ dw.pc \in {"sync_fetch", "sync_run"} /\
       dw'.pc \notin {"sync_fetch", "sync_run"} => dw'.pc = "wait"

\* C23: in a sync tick a batch whose ingest raises adds exactly one to
\* failed_batches, every batch of the tick is still run once and to its
\* end, and the tick returns normally; a tick that raises leaves the loop
\* waiting for the interval, after which (unless shutdown was requested)
\* the next tick can start.
C23_FailedBatchCountedTickGoesOn ==
    /\ [](dw.pc = "wait" /\ ~sync_shutdown /\ dw.ticks < MaxTicks
             => ENABLED WaitTimeout)
    /\ [][CountedOnce /\ TickReturns /\ LoopSurvives]_vars

\* the tick after a tick that raised: its first batch raised and was
\* counted, its other batches ran to completion
C23_Witness_FailedBatchInNextTick ==
    /\ dw.ticks = 2 /\ dw.last = "raised"
    /\ dw.pc = "sync_run" /\ AllEnded(run)
    /\ Len(run.tasks) >= 2
    /\ RaisedBatches(run) = {1}
    /\ run.completed[1] = 1
    /\ sync_stats.failed_batches = 1


\* ---------------------------------------------------------------- C24
\* C24: once the shutdown event of the delta-sync worker is set, the next
\* move of its loop is to end: it starts no further tick, it does not stay
\* in the wait for the interval, and it does not go on with the steps of a
\* tick that is in progress.
C24_StepRacedAgainstShutdown ==
    [][sync_shutdown /\ dw'.pc # dw.pc => dw'.pc = "done"]_vars


\* ---------------------------------------------------------------- C25
\* the episodes one poll asks the database for: at most batch_size
Obtained ==
    IF Cardinality(EpisodesWithoutMedia) <= upload_batch_size
    THEN Cardinality(EpisodesWithoutMedia)
    ELSE upload_batch_size

\* C25: a publish tick enqueues exactly one EpisodeUploadTask for each of
\* the up to batch_size episodes lacking media that it obtained, each for a
\* different such episode, and within one (anime, translation) pair in
\* ascending episode number.
C25_TickEnqueuesObtainedEpisodes ==
    [][last_poll_at' # last_poll_at =>
          /\ Len(tasks') = Len(tasks) + Obtained
          /\ \A k \in (Len(tasks) + 1)..Len(tasks') :
                /\ tasks'[k].episode_id \in EpisodesWithoutMedia
                /\ \A j \in (Len(tasks) + 1)..(k - 1) :
                      /\ tasks'[j].episode_id # tasks'[k].episode_id
                      /\ queue_key(tasks'[j]) = queue_key(tasks'[k])
                            => tasks'[j].number < tasks'[k].number]_vars


\* ---------------------------------------------------------------- C26
\* the error types after which another attempt is worth making
TransientTypes == {"FFMPEG_TIMEOUT", "FFMPEG_FAILED", "KODIK_ERROR"}

\* the attempt that just ended, ended with exc
LastFailure == rt.log[Len(rt.log)]

\* an attempt has ended in failure: retry_async sleeps before a further
\* attempt or has raised
AttemptOver == rt.pc \in {"sleep", "raised"}

C26_RetriesEveryDownloadError ==
    /\ rt.attempt <= rt.max_retries /\ Len(rt.log) <= rt.max_retries
    /\ AttemptOver =>
          (rt.pc = "sleep" <=>
              /\ LastFailure.kind = "DownloadError"
              /\ rt.attempt < rt.max_retries)
    /\ rt.caller = "_process_episode" /\ rt.pc = "raised"
          => stats.failed_count > 0


\* ---------------------------------------------------------------- C27
\* download has ended, with a DownloadResult or with a DownloadError
Downloaded == dl.pc = "done" /\ "path" \in DOMAIN dl.outcome[1]
DownloadFailed == dl.pc = "done" /\ "kind" \in DOMAIN dl.outcome[1]

\* the error type the order of the checks assigns to what happened
ExpectedType ==
    IF dl.timed_out THEN "FFMPEG_TIMEOUT"
    ELSE IF proc.returncode # Some(0) THEN "FFMPEG_FAILED"
    ELSE IF ~dl.exists THEN "FILE_NOT_CREATED"
    ELSE IF dl.size = 0 THEN "FILE_EMPTY"
    ELSE IF dl.size < MIN_FILE_SIZE THEN "FILE_TOO_SMALL"
    ELSE "FFMPEG_FAILED"

\* C27: download returns a DownloadResult only if the muxer exited with
\* code 0 within the timeout and the output file exists with at least
\* MIN_FILE_SIZE bytes; once the muxer ran, a failed download carries the
\* one error type of the first check that failed, in the order timeout,
\* exit code, file missing, file empty, file too small.
C27_TypedErrorInOrder ==
    /\ Downloaded =>
          /\ proc.state = "exited" /\ proc.returncode = Some(0)
          /\ ~dl.timed_out
          /\ dl.exists /\ dl.size >= MIN_FILE_SIZE
          /\ out_file = Some(dl.size)
    /\ DownloadFailed /\ proc.state # "none" =>
          /\ dl.outcome[1].kind = "DownloadError"
          /\ dl.outcome[1].error_type = ExpectedType

\* the muxer exited with code 0 and left 50 bytes: FILE_TOO_SMALL
C27_Witness_FileTooSmall ==
    /\ DownloadFailed
    /\ proc.returncode = Some(0) /\ ~dl.timed_out
    /\ dl.exists /\ dl.size = 50
    /\ dl.outcome[1].error_type = "FILE_TOO_SMALL"


\* ---------------------------------------------------------------- C28
\* a step that takes the output file of a timed-out download away finds the
\* muxer killed and awaited
KilledBeforeRemoved ==
    (dl'.timed_out /\ out_file' # out_file /\ dl'.pc = "done") =>
        proc'.state = "killed" /\ proc'.awaited

HandedOut == {sg[i].got[1] : i \in {j \in 1..NCallers : sg[j].got # None}}

\* C29: whatever the interleaving of the callers, one client and one
\* OrderedUploadQueue are built at most; all callers of get_upload_queue
\* receive the same queue, all callers of get_upload_client the same
\* client, and that client was started when it was returned.
C29_SingletonsCreatedOnce ==
    /\ Len(clients) <= 1
    /\ Len(upload_queues) <= 1
    /\ \A v, w \in HandedOut : v.kind = w.kind => v.id = w.id
    /\ \A v \in HandedOut : v.kind = "client" => v.started


\* ---------------------------------------------------------------- C31
\* the concatenation of the chunks, in order
RECURSIVE Concatenated(_)
Concatenated(chunks) ==
    IF chunks = <<>> THEN <<>> ELSE Head(chunks) \o Concatenated(Tail(chunks))

\* chunks are consecutive pieces of items: all of length size but the last,
\* which has 1..size elements
ChunksOf(chunks, items, size) ==
    /\ Concatenated(chunks) = items
    /\ items = <<>> => chunks = <<>>
    /\ \A i \in 1..Len(chunks) :
          /\ Len(chunks[i]) \in 1..size
          /\ i < Len(chunks) => Len(chunks[i]) = size

\* C31: for size >= 1 chunked returns consecutive chunks whose
\* concatenation is the input, every chunk of exactly size elements except
\* the last, which has between 1 and size (no chunk for an empty input);
\* a sync with a batch_size that is not positive runs no batch (ValueError),
\* and any other sync hands every fetched item to ingest in exactly one
\* batch of at most batch_size items.
C31_ChunksPartitionInput ==
    /\ \A n \in 0..MaxFetched, size \in 1..(MaxFetched + 1) :
          ChunksOf(chunked(Items(n), size), Items(n), size)
    /\ ChunkSizeInvalid(dw.batch_size) => run = NoRun /\ dw.pc # "sync_run"
    /\ dw.pc = "sync_run" =>
          /\ run.caller = "sync"
          /\ ChunksOf(run.batches, dw.raw_items, dw.batch_size)

\* three fetched items in batches of two: a full chunk and a last chunk of
\* one item
C31_Witness_LastChunkShorter ==
    /\ dw.pc = "sync_run"
    /\ dw.batch_size = 2
    /\ Len(dw.raw_items) % 2 = 1
    /\ Len(run.batches) >= 2
    /\ Len(run.batches[Len(run.batches)]) = 1

\* ---------------------------------------------------------------- C32
\* the episode keys of a raw item that parse as an integer: <<season, index>>
ParseableKeys(raw) ==
    UNION {{<<s, k>> : k \in {k \in 1..Len(raw.seasons[s]) :
                                  SafeInt(raw.seasons[s][k]) # None}} :
           s \in 1..Len(raw.seasons)}

\* the episodes the description derives from a raw item
EpisodesDerived(raw, episodes) ==
    LET t == SafeTranslationId(raw.translation) IN
    /\ \A j \in 1..Len(episodes) :
          /\ episodes[j].id = <<raw.id, t, episodes[j].number>>
          /\ episodes[j].anime_id = raw.id
          /\ episodes[j].translation_id = t
    /\ IF raw.seasons # <<>>
       THEN /\ Len(episodes) = Cardinality(ParseableKeys(raw))
            /\ \A sk \in ParseableKeys(raw) :
                  \E j \in 1..Len(episodes) :
                     /\ episodes[j].season = sk[1]
                     /\ episodes[j].number = IntOf[raw.seasons[sk[1]][sk[2]]]
       ELSE /\ Len(episodes) = raw.total
            /\ \A j \in 1..Len(episodes) :
                  episodes[j].number = j /\ episodes[j].season = 1

\* the raw items of the running ingest that normalize, and the items of the
\* given shape among them
NormalizedOf(type) ==
    LET ok == SelectSeq(ig.raw_items, Normalizable)
    IN  {i \in 1..Len(ig.bundles) : ok[i].type = type}

\* C32: for a structured element and for a dict alike, the episodes of a
\* bundle are one per integer-parseable episode key of every season when a
\* seasons map is present, and the episodes 1..episodes_total of season 1
\* when it is empty; the id of every episode is work:translation:number.
C32_EpisodesDerivedForEitherShape ==
    LET ok == SelectSeq(ig.raw_items, Normalizable) IN
    \A i \in NormalizedOf("dict") \cup NormalizedOf("element") :
       EpisodesDerived(ok[i], ig.bundles[i].episodes)

\* what holds: the derivation for structured elements, and for dicts
\* without a seasons map
C32_EpisodesDerivedFromElement ==
    LET ok == SelectSeq(ig.raw_items, Normalizable) IN
    \A i \in NormalizedOf("dict") \cup NormalizedOf("element") :
       (ok[i].type = "element" \/ ok[i].seasons = <<>>)
          => EpisodesDerived(ok[i], ig.bundles[i].episodes)

\* an element with a non-integer key was normalized: the key is skipped
C32_Witness_NonIntegerKeySkipped ==
    LET ok == SelectSeq(ig.raw_items, Normalizable) IN
    \E i \in NormalizedOf("element") :
       /\ \E s \in 1..Len(ok[i].seasons) :
             \E k \in 1..Len(ok[i].seasons[s]) :
                SafeInt(ok[i].seasons[s][k]) = None
       /\ Len(ig.bundles[i].episodes) = 2

\* ---------------------------------------------------------------- C33
\* the invocations of worker in progress
InProgress == {i \in 1..Len(run.tasks) : run.tasks[i].pc = "worker"}

\* the invocations of worker that raised
RaisedInvocations == {i \in 1..Len(run.tasks) :
             \/ run.tasks[i].pc = "failed"
             \/ /\ run.tasks[i].pc = "done"
                /\ ~run.tasks[i].result[1].ok}

\* C33: at no time are more than `concurrency` invocations of worker in
\* progress, whatever the number of batches and whichever invocations
\* raise; every ended invocation, a failed one too, has given its slot
\* back, so a batch waits only while `concurrency` others are in progress
\* and no batch is invoked twice.
C33_AtMostConcurrencyInProgress ==
    run.tasks # <<>> =>
       /\ Cardinality(InProgress) <= run.concurrency
       /\ run.sem = run.concurrency - Cardinality(InProgress)
       /\ \A i \in 1..Len(run.tasks) :
             /\ run.invoked[i] <= 1
             /\ run.tasks[i].pc = "waiting" =>
                   \/ Cardinality(InProgress) = run.concurrency
                   \/ run.sem > 0 /\ Head(run.waiters) \in 1..Len(run.tasks)

\* three batches with two slots: one invocation raised, the batch that had
\* to wait is in progress next to the other one
C33_Witness_SlotOfFailedReused ==
    /\ Len(run.tasks) > run.concurrency
    /\ run.concurrency > 1
    /\ RaisedInvocations # {}
    /\ Cardinality(InProgress) = run.concurrency
    /\ Len(run.tasks) \in InProgress

\* ---------------------------------------------------------------- C34
\* once the target is resolved it never changes
TargetStable == chat_validated => chat_id' = chat_id

\* C34: per queue instance the chat target is resolved at most once:
\* get_chat is requested at most one time, also when the workers of several
\* keys process their first task concurrently, and once the target is
\* resolved, or has fallen back to the saved pseudo-chat, it never changes.
C34_ChatResolvedAtMostOnce ==
    [](get_chat_calls <= 1) /\ [][TargetStable]_vars

\* get_chat is requested at most once per worker that reached
\* _validate_chat_access before the target was resolved
C34_ChatResolvedOncePerWorker == get_chat_calls <= Len(wk)

\* two workers are inside get_chat at the same time
C34_Witness_TwoWorkersValidating ==
    \E i, j \in DOMAIN wk :
       i # j /\ wk[i].pc = "validating" /\ wk[j].pc = "validating"

\* ----------------------------------------------------------- AsyncBatcher
outsideBatcher == <<uploadVars, kodikVars, ingestVars, syncVars, downloadVars,
                    singletonVars, lockVars>>

\* the coroutines that use the lock: <<"c", i>> is caller i, <<"t", k>> the
\* k-th timer task created
CallerId(c) == <<"c", c>>
TimerId(k) == <<"t", k>>

\* `async with self._lock` is entered without waiting: asyncio.Lock.acquire
\* takes the lock if it is free and nobody is in line
LockFree(b) == b.holder = <<>> /\ b.waiters = <<>>

\* the coroutine leaves `async with self._lock` and ends
Leave(b, p) ==
    IF p[1] = "c"
    THEN [b EXCEPT !.holder = <<>>, !.callers[p[2]] = NoBatcherCall]
    ELSE [b EXCEPT !.holder = <<>>, !.timers[p[2]].pc = "ended"]

\* self._timer_task.cancel(); self._timer_task = None, called by p: a task
\* asleep or in line for the lock ends with CancelledError, which _timer
\* swallows; a task that cancels itself goes on and gets the CancelledError
\* at its next suspension
CancelTimer(b, p) ==
    LET k == b.timer_task IN
    IF k = 0 THEN b
    ELSE IF p = TimerId(k)
    THEN [b EXCEPT !.timer_task = 0, !.timers[k].must_cancel = TRUE]
    ELSE IF b.timers[k].pc \in {"sleep", "lock"}
    THEN [b EXCEPT !.timer_task = 0, !.timers[k].pc = "ended",
                   !.waiters = SelectSeq(@, LAMBDA w : w # TimerId(k))]
    ELSE [b EXCEPT !.timer_task = 0]

\* a cancellation is pending for the coroutine
MustCancel(b, p) == p[1] = "t" /\ b.timers[p[2]].must_cancel

\* _flush_internal run by p, which holds the lock: the timer is cancelled,
\* the items are taken and handed to the processor.  A processor that
\* does not suspend has completed when the call returns; one that
\* suspends leaves p inside `await self._processor(items)`, unless a
\* cancellation is pending for p: then the processor gets CancelledError
\* at its first suspension and p ends
_flush_internal(b, p, suspends) ==
    LET c == CancelTimer(b, p)
        taken == [c EXCEPT !.items = <<>>, !.handed = Append(@, c.items)]
    IN  IF c.items = <<>> THEN Leave(c, p)
        ELSE IF ~suspends
        THEN Leave([taken EXCEPT !.processed = Append(@, c.items)], p)
        ELSE IF MustCancel(taken, p)
        THEN Leave([taken EXCEPT !.cancelled = Append(@, c.items)], p)
        ELSE IF p[1] = "c"
        THEN [taken EXCEPT !.callers[p[2]].pc = "processor",
                           !.callers[p[2]].batch = c.items]
        ELSE [taken EXCEPT !.timers[p[2]].pc = "processor",
                           !.timers[p[2]].batch = c.items]

\* the body of add under the lock: the item is appended; a full batch is
\* flushed, else the timer task is created if there is none
AddBody(b, c, suspends) ==
    LET grown == [b EXCEPT !.items = Append(@, b.callers[c].item)] IN
    IF Len(grown.items) >= grown.batch_size
    THEN _flush_internal(grown, CallerId(c), suspends)
    ELSE IF grown.timer_task = 0
    THEN Leave([grown EXCEPT
                  !.timers = Append(@, [pc |-> "sleep", must_cancel |-> FALSE,
                                        batch |-> <<>>]),
                  !.timer_task = Len(grown.timers) + 1], CallerId(c))
    ELSE Leave(grown, CallerId(c))

\* what p does once it holds the lock
LockedBody(b, p, suspends) ==
    LET held == [b EXCEPT !.holder = p] IN
    IF p[1] = "c" /\ b.callers[p[2]].op = "add"
    THEN AddBody(held, p[2], suspends)
    ELSE _flush_internal(held, p, suspends)

\* caller c reaches `async with self._lock` of add, flush or close
EnterLock(b, c, op, item, suspends) ==
    LET called == [b EXCEPT !.callers[c] =
                      [pc |-> "lock", op |-> op, item |-> item, batch |-> <<>>]]
    IN  IF LockFree(b) THEN LockedBody(called, CallerId(c), suspends)
        ELSE [called EXCEPT !.waiters = Append(@, CallerId(c))]

\* await batcher.add(item): the items are numbered in the order of the calls
add(c, suspends) ==
    /\ ab.callers[c].pc = "idle"
    /\ ab.added < MaxAdds
    /\ ab' = EnterLock([ab EXCEPT !.added = @ + 1], c, "add", ab.added + 1,
                       suspends)
    /\ UNCHANGED outsideBatcher

\* await batcher.flush()
flush(c, suspends) ==
    /\ ab.callers[c].pc = "idle"
    /\ ab' = EnterLock(ab, c, "flush", 0, suspends)
    /\ UNCHANGED outsideBatcher

\* await batcher.close(): flush(), after which _timer_task is None
close(c, suspends) ==
    /\ ab.callers[c].pc = "idle"
    /\ ab' = EnterLock(ab, c, "close", 0, suspends)
    /\ UNCHANGED outsideBatcher

\* the released lock is given to the first coroutine in line
LockGranted(p, suspends) ==
    /\ ab.holder = <<>>
    /\ ab.waiters # <<>> /\ Head(ab.waiters) = p
    /\ ab' = LockedBody([ab EXCEPT !.waiters = Tail(@)], p, suspends)
    /\ UNCHANGED outsideBatcher

\* asyncio.sleep(self._timeout) of the k-th timer task is over: it takes
\* the lock and flushes, or waits in line
TimerFires(k, suspends) ==
    /\ k \in 1..Len(ab.timers)
    /\ ab.timers[k].pc = "sleep"
    /\ ab' = IF LockFree(ab) THEN LockedBody(ab, TimerId(k), suspends)
             ELSE [ab EXCEPT !.timers[k].pc = "lock",
                             !.waiters = Append(@, TimerId(k))]
    /\ UNCHANGED outsideBatcher

\* the processor that had suspended returns to caller c
ProcessorReturns(c) ==
    /\ ab.callers[c].pc = "processor"
    /\ ab' = Leave([ab EXCEPT !.processed = Append(@, ab.callers[c].batch)],
                   CallerId(c))
    /\ UNCHANGED outsideBatcher

InitBatcher ==
    /\ UploadIdle
    /\ LimiterInit(kodik_rps_limit * TokenScale, None)
    /\ ClientInit(FALSE)
    /\ IngestIdle /\ SyncIdle /\ DownloadIdle /\ SingletonIdle /\ LocksIdle
    /\ \E batch_size \in BatchSizes : ab = NoBatcher(batch_size)

BatcherIds ==
    {CallerId(c) : c \in 1..NCallers} \cup {TimerId(k) : k \in 1..MaxAdds}

NextBatcher ==
    \/ \E c \in 1..NCallers, suspends \in BOOLEAN : add(c, suspends)
    \/ \E c \in 1..NCallers, suspends \in BOOLEAN : flush(c, suspends)
    \/ \E c \in 1..NCallers, suspends \in BOOLEAN : close(c, suspends)
    \/ \E p \in BatcherIds, suspends \in BOOLEAN : LockGranted(p, suspends)
    \/ \E k \in 1..MaxAdds, suspends \in BOOLEAN : TimerFires(k, suspends)
    \/ \E c \in 1..NCallers : ProcessorReturns(c)

SpecBatcher == InitBatcher /\ [][NextBatcher]_vars

\* ---------------------------------------------------------------- C35
\* the items add has appended so far: those of the calls not in line
Appended ==
    {n \in 1..ab.added :
        \A c \in 1..NCallers :
           ~(ab.callers[c].pc = "lock" /\ ab.callers[c].item = n)}

\* how often item n occurs in the batches of a list
RECURSIVE Occurrences(_, _)
Occurrences(batches, n) ==
    IF batches = <<>> THEN 0
    ELSE Cardinality({k \in 1..Len(Head(batches)) : Head(batches)[k] = n})
            + Occurrences(Tail(batches), n)

\* every appended item is pending or was handed to the processor in one
\* batch, no batch is larger than batch_size, and a full batch is never
\* left pending
HandedExactlyOnce ==
    /\ \A n \in Appended : Occurrences(<<ab.items>> \o ab.handed, n) = 1
    /\ \A k \in 1..Len(ab.handed) :
          Len(ab.handed[k]) \in 1..ab.batch_size
    /\ Len(ab.items) < ab.batch_size

\* when no timer task is referenced none is asleep: a flush by size has
\* cancelled the pending timer
TimerCancelled ==
    \A k \in 1..Len(ab.timers) :
       ab.timers[k].pc \in {"sleep", "lock"} => ab.timer_task = k

\* no run of the processor was cut short: every batch handed over was
\* processed to the end or is being processed
NothingLost ==
    /\ ab.cancelled = <<>>
    /\ \A n \in 1..ab.added :
          Occurrences(ab.cancelled, n) = 0
             /\ Occurrences(ab.processed, n) <= 1

\* C35: every item passed to add is handed to the processor exactly once,
\* in a batch of at most batch_size items, when the batch is full, the
\* timer fires or flush / close is called; for every interleaving, and for
\* processors that suspend, no item is lost or delivered twice, and the
\* pending timer is cancelled when the size threshold fires first.
C35_EveryItemProcessedOnce ==
    HandedExactlyOnce /\ TimerCancelled /\ NothingLost

\* what holds: the hand-over itself, and the cancellation of the timer
C35_EveryItemHandedOnce == HandedExactlyOnce /\ TimerCancelled

\* a flush by size cancelled the pending timer, whose task has ended
C35_Witness_TimerCancelledBySize ==
    /\ ab.batch_size > 1
    /\ Len(ab.timers) = 1 /\ ab.timers[1].pc = "ended"
    /\ ~ab.timers[1].must_cancel
    /\ ab.timer_task = 0
    /\ ab.handed = <<Items(ab.batch_size)>>

\* ---------------------------------------------------------------- C36
\* every link and episode row names an anime and a translation that have
\* a row
References(rows) ==
    \A r \in rows.anime_translation \cup rows.episode :
       /\ \E a \in rows.anime : a.id = r.anime_id
       /\ \E t \in rows.translation : t.id = r.translation_id

\* the call ingested one bundle, whose translation is the sentinel 0
SentinelIngested ==
    /\ ig.returned
    /\ Len(ig.bundles) = 1
    /\ ig.bundles[1].translation.id = 0

\* C36: a bundle whose translation identity is the sentinel 0 is persisted
\* like any other, in the order translation, work, link, episodes: after the
\* ingest there is the translation row 0, the work row, the (work, 0) link
\* row and every episode row of the bundle, and at no time is a link or
\* episode row written before the rows it references.
C36_SentinelTranslationPersisted ==
    /\ References(sess.rows) /\ References(db)
    /\ SentinelIngested => HasRows(db, ig.bundles[1])

\* what holds: the statements keep the references intact, and a bundle with
\* the sentinel leaves no translation row, no link row and no episode row
C36_SentinelTranslationSkipped ==
    /\ References(sess.rows) /\ References(db)
    /\ \A r \in db.translation \cup sess.rows.translation : r.id # 0
    /\ \A r \in db.anime_translation \cup db.episode : r.translation_id # 0
    /\ SentinelIngested /\ ig.bundles[1].episodes # <<>> =>
          db = ig.before /\ ~ig.persisted[1]

\* a bundle with the sentinel and an episode was ingested
C36_Witness_SentinelWithEpisode ==
    /\ SentinelIngested
    /\ ig.bundles[1].episodes # <<>>
    /\ ~ig.persisted[1]

\* ---------------------------------------------------------------- C37
\* the episodes are pairwise distinct in id and in conflict key, and meet
\* the constraints of the episode table
DistinctEpisodes(episodes) ==
    /\ \A j, k \in DOMAIN episodes :
          j # k => /\ episodes[j].id # episodes[k].id
                   /\ EpisodeKey(episodes[j]) # EpisodeKey(episodes[k])
    /\ \A j \in DOMAIN episodes :
          episodes[j].number >= 1 /\ episodes[j].season >= 1

\* C37: within one normalized bundle no two episodes share an id, that is
\* the (work, translation, number) keys of its episodes are pairwise
\* distinct, and every episode has number >= 1 and season >= 1, so that
\* upsert_episodes never receives two rows with the same conflict key.
C37_EpisodeKeysDistinct ==
    \A i \in DOMAIN ig.bundles : DistinctEpisodes(ig.bundles[i].episodes)

\* what holds: the episodes synthesized from a count are distinct, as are
\* the episodes of one season whose keys parse to different numbers
C37_GeneratedEpisodesDistinct ==
    LET ok == SelectSeq(ig.raw_items, Normalizable) IN
    \A i \in DOMAIN ig.bundles :
       (ok[i].type = "dict" \/ Len(ok[i].seasons) <= 1)
          => DistinctEpisodes(ig.bundles[i].episodes)

\* a dict with a count of more than one episode was normalized
C37_Witness_SeveralGenerated ==
    LET ok == SelectSeq(ig.raw_items, Normalizable) IN
    \E i \in DOMAIN ig.bundles :
       ok[i].type = "dict" /\ Len(ig.bundles[i].episodes) > 1

\* ------------------------------------------- ingest batches side by side
outsideLocks == <<uploadVars, kodikVars, ingestVars, syncVars, downloadVars,
                  singletonVars, batcherVars>>

\* the batches that run_with_limited_concurrency has in progress at the
\* same time for concurrency 2, each in its own session and transaction
Transactions == {1, 2}

\* the items of a delta: the works A and B, each in the translations 1, 2
DeltaItems == {RawDict(a, Some(t), 1, 1) : a \in {"A", "B"}, t \in {1, 2}}

DeltaBatches == UNION {[1..n -> DeltaItems] : n \in 1..MaxBatch}

\* a row of a table by its conflict key
LockedRow(table, a, t, n) == <<table, a, t, n>>

\* the rows the statements of _persist_bundle_with_repo write, in order:
\* translation, anime, anime_translation, episodes; a statement the
\* repository skips writes nothing
BundleRows(b) ==
    (IF b.translation.id = 0 THEN <<>>
     ELSE <<LockedRow("translation", "", b.translation.id, 0)>>)
    \o (IF b.anime.id = "" THEN <<>>
        ELSE <<LockedRow("anime", b.anime.id, 0, 0)>>)
    \o (IF b.anime_translation.translation_id = 0 THEN <<>>
        ELSE <<LockedRow("anime_translation", b.anime_translation.anime_id,
                      b.anime_translation.translation_id, 0)>>)
    \o [k \in DOMAIN b.episodes |->
           LockedRow("episode", b.episodes[k].anime_id,
                  b.episodes[k].translation_id, b.episodes[k].number)]

\* _persist_bundles: the bundles of the batch in order
RECURSIVE BatchRows(_)
BatchRows(bundles) ==
    IF bundles = <<>> THEN <<>>
    ELSE BundleRows(Head(bundles)) \o BatchRows(Tail(bundles))

\* ingest_items(batch) up to its first statement, inside session.begin()
BeginTransaction(batch) ==
    [batch |-> batch, rows |-> BatchRows(Bundles(batch)), at |-> 1,
     state |-> "active", held |-> {}, deadlocked |-> FALSE]

\* the transactions that hold the row transaction i asks for next
Blockers(i) ==
    {j \in DOMAIN txn \ {i} :
        txn[i].at <= Len(txn[i].rows) /\ txn[i].rows[txn[i].at] \in txn[j].held}

\* the transactions i waits for, directly or through others that wait
RECURSIVE WaitsFor(_, _)
WaitsFor(i, depth) ==
    IF depth = 0 THEN {}
    ELSE Blockers(i) \cup
         UNION {WaitsFor(j, depth - 1) :
                   j \in {b \in Blockers(i) : txn[b].state = "waiting"}}

\* the end of `async with session.begin()`: COMMIT, or ROLLBACK of an
\* aborted transaction; either way the rows are unlocked
EndTransaction_open(t) == [t EXCEPT !.state = "done"]

EndTransaction(t) == [t EXCEPT !.state = "done", !.held = {}]

\* the next INSERT ... ON CONFLICT DO UPDATE of transaction i reaches its
\* row: it locks the row until the end of the transaction, or waits while
\* another transaction holds it
ExecuteUpsert(i) ==
    /\ i \in DOMAIN txn
    /\ txn[i].state = "active"
    /\ txn[i].at <= Len(txn[i].rows)
    /\ txn' = IF Blockers(i) # {}
              THEN [txn EXCEPT ![i].state = "waiting"]
              ELSE [txn EXCEPT ![i].held = @ \cup {txn[i].rows[txn[i].at]},
                               ![i].at = @ + 1]
    /\ UNCHANGED outsideLocks

\* the row transaction i waits for was unlocked: the statement goes on
RowUnlocked(i) ==
    /\ i \in DOMAIN txn
    /\ txn[i].state = "waiting"
    /\ Blockers(i) = {}
    /\ txn' = [txn EXCEPT ![i].state = "active",
                          ![i].held = @ \cup {txn[i].rows[txn[i].at]},
                          ![i].at = @ + 1]
    /\ UNCHANGED outsideLocks

\* the database finds transaction i in a cycle of waiting transactions and
\* aborts it, which unlocks its rows; the statement raises, `except
\* Exception` of _persist_bundles records the bundle, and every later
\* statement of the batch fails at once in the aborted transaction
DeadlockDetected(i) ==
    /\ i \in DOMAIN txn
    /\ txn[i].state = "waiting"
    /\ i \in WaitsFor(i, Cardinality(Transactions))
    /\ txn' = [txn EXCEPT ![i].state = "aborted", ![i].held = {},
                          ![i].at = Len(txn[i].rows) + 1,
                          ![i].deadlocked = TRUE]
    /\ UNCHANGED outsideLocks

\* transaction i leaves `async with session.begin()`
TransactionEnds(i) ==
    /\ i \in DOMAIN txn
    /\ \/ txn[i].state = "active" /\ txn[i].at > Len(txn[i].rows)
       \/ txn[i].state = "aborted"
    /\ txn' = [txn EXCEPT ![i] = EndTransaction(txn[i])]
    /\ UNCHANGED outsideLocks

InitLocks ==
    /\ UploadIdle
    /\ LimiterInit(kodik_rps_limit * TokenScale, None)
    /\ ClientInit(FALSE)
    /\ IngestIdle /\ SyncIdle /\ DownloadIdle /\ SingletonIdle /\ BatcherIdle
    /\ \E batches \in [Transactions -> DeltaBatches] :
          \* works and translations are interchangeable: the first batch
          \* starts with work A in translation 1
          /\ batches[1][1] = RawDict("A", Some(1), 1, 1)
          /\ txn = [i \in Transactions |-> BeginTransaction(batches[i])]

\* what transaction i can do
TransactionStep(i) ==
    \/ ExecuteUpsert(i)
    \/ RowUnlocked(i)
    \/ DeadlockDetected(i)
    \/ TransactionEnds(i)

NextLocks ==
    \/ \E i \in Transactions : ExecuteUpsert(i)
    \/ \E i \in Transactions : RowUnlocked(i)
    \/ \E i \in Transactions : DeadlockDetected(i)
    \/ \E i \in Transactions : TransactionEnds(i)

SpecLocks == InitLocks /\ [][NextLocks]_vars

\* the event loop runs every coroutine that can go on, and the database
\* runs its deadlock check for every transaction that waits
FairSpecLocks ==
    SpecLocks /\ \A i \in Transactions : WF_vars(TransactionStep(i))

\* ---------------------------------------------------------------- C39
\* every batch has left its transaction
AllTerminated == \A i \in DOMAIN txn : txn[i].state = "done"

\* C39: ingest batches that run at the same time, each upserting its
\* bundles in batch order, all terminate: no set of batches waits for ever
\* on rows the others hold, also when two batches upsert the same
\* translations or works in different orders.
C39_ConcurrentBatchesTerminate == <>[]AllTerminated

\* both batches have ended after they had waited for each other: one was
\* aborted by the database, the other one went through
C39_Witness_DeadlockResolved ==
    /\ AllTerminated
    /\ \E i, j \in DOMAIN txn :
          /\ txn[i].deadlocked /\ ~txn[j].deadlocked
          /\ txn[j].at > Len(txn[j].rows)

\* ------------------------------------- the queue while no shutdown is asked
\* what worker i can do by itself: start, take a task, and every step of
\* _process_task, whose awaited calls return or raise
WorkerStep(i) ==
    /\ i \in DOMAIN wk
    /\ \/ WorkerStart(i)
       \/ WorkerDequeue(i)
       \/ WorkerBegin(i)
       \/ \E ok \in BOOLEAN : WorkerValidated(i, ok)
       \/ WorkerCheckFile(i)
       \/ WorkerSent(i)
       \/ WorkerSendFailed(i)
       \/ WorkerMarked(i)
       \/ WorkerMarkFailed(i)

\* the queue and its workers with shutdown() never called; the timeout of
\* queue.get then leaves the worker where it is
NextRunning ==
    \/ \E e \in Episodes :
          enqueue(e[1], e[2], e[3], DownloadResult(Len(tasks) + 1))
    \/ \E i \in DOMAIN wk : WorkerStart(i)
    \/ \E i \in DOMAIN wk : WorkerDequeue(i)
    \/ \E i \in DOMAIN wk : WorkerBegin(i)
    \/ \E i \in DOMAIN wk, ok \in BOOLEAN : WorkerValidated(i, ok)
    \/ \E i \in DOMAIN wk : WorkerCheckFile(i)
    \/ \E i \in DOMAIN wk : WorkerSent(i)
    \/ \E i \in DOMAIN wk : WorkerSendFailed(i)
    \/ \E i \in DOMAIN wk : WorkerMarked(i)
    \/ \E i \in DOMAIN wk : WorkerMarkFailed(i)

SpecRunning == Init /\ [][NextRunning]_vars

\* the event loop runs every worker that can go on, and every call to the
\* chat backend and to the database ends
FairSpecRunning ==
    SpecRunning /\ \A i \in 1..MaxTasks : WF_vars(WorkerStep(i))

\* ---------------------------------------------------------------- C40
\* task t was accepted by enqueue
Accepted(t) == t \in DOMAIN tasks

\* task t has reached COMPLETED or FAILED
Finished(t) == t \in DOMAIN tasks /\ tasks[t].status \in Terminal

\* the worker of the key of task t
WorkerOf(t) == workers[queue_key(tasks[t])]

\* whatever the workers of other keys are doing, the worker of an
\* unfinished task can go on
NotHeldUp ==
    \A t \in DOMAIN tasks :
       ~Finished(t) => ENABLED WorkerStep(WorkerOf(t))

\* C40: with shutdown never requested and every call to the chat backend
\* and the database ending, every task accepted by enqueue eventually
\* reaches COMPLETED or FAILED, for every key; a slow or failing task of
\* one key never keeps the worker of another key from going on.
C40_EveryTaskFinishes ==
    /\ \A t \in 1..MaxTasks : Accepted(t) ~> Finished(t)
    /\ []NotHeldUp

\* tasks of two keys have finished, one of them FAILED, the other COMPLETED
C40_Witness_TwoKeysFinished ==
    \E t, u \in DOMAIN tasks :
       /\ queue_key(tasks[t]) # queue_key(tasks[u])
       /\ tasks[t].status = FAILED
       /\ tasks[u].status = COMPLETED
====
